---------------------------- MODULE Spec2Model ----------------------------
(***************************************************************************)
(* Schema-Sense: column type inference, rule-based / remote column         *)
(* descriptions and MySQL DDL synthesis.                                   *)
(*                                                                         *)
(* A Python str is modelled as a sequence of one-character strings, so     *)
(* that regular expressions, slicing, formatting and escaping are computed *)
(* character by character as the code computes them.  A null cell (NaN in  *)
(* the pandas Series) is the value NULL.  The backtick, which a TLA+       *)
(* string cannot hold, is the element "BACKTICK".                          *)
(***************************************************************************)
EXTENDS Integers, Sequences, FiniteSets, TLC

(***************************************************************************)
(* Characters and string helpers (Python str methods).                     *)
(***************************************************************************)
DigitSeq == <<"0","1","2","3","4","5","6","7","8","9">>
LowerSeq == <<"a","b","c","d","e","f","g","h","i","j","k","l","m","n","o","p","q","r","s","t","u","v","w","x","y","z">>
UpperSeq == <<"A","B","C","D","E","F","G","H","I","J","K","L","M","N","O","P","Q","R","S","T","U","V","W","X","Y","Z">>

Range(s) == {s[i] : i \in 1..Len(s)}

Digit == Range(DigitSeq)
LowerCh == Range(LowerSeq)
UpperCh == Range(UpperSeq)
Letter == LowerCh \cup UpperCh
HexCh == Digit \cup Range(<<"a","b","c","d","e","f","A","B","C","D","E","F">>)
\* \s of the re module, restricted to the whitespace the model's cells use
Whitespace == {" ", "\t"}

ToLowerChar(c) ==
    IF c \in UpperCh
    THEN LowerSeq[CHOOSE i \in 1..26 : UpperSeq[i] = c]
    ELSE c

\* str.lower()
StrLower(s) == [i \in 1..Len(s) |-> ToLowerChar(s[i])]

AllIn(s, cls) == \A i \in 1..Len(s) : s[i] \in cls

\* s[a:b] with 0-based, end-exclusive Python slice bounds (0 <= a, b)
Slice(s, a, b) ==
    LET hi == IF b < Len(s) THEN b ELSE Len(s)
    IN  IF a >= hi THEN <<>> ELSE SubSeq(s, a + 1, hi)

\* s[:n]
Prefix(s, n) == Slice(s, 0, n)

\* s[n:]
Suffix(s, n) == Slice(s, n, Len(s))

StartsWith(s, p) == Len(p) <= Len(s) /\ SubSeq(s, 1, Len(p)) = p

\* p in s
Contains(s, p) ==
    \E i \in 0..(Len(s) - Len(p)) : SubSeq(s, i + 1, i + Len(p)) = p

\* number of (possibly overlapping) positions at which p occurs in s
Occurrences(s, p) ==
    Cardinality({i \in 0..(Len(s) - Len(p)) : SubSeq(s, i + 1, i + Len(p)) = p})

\* str.strip()
Strip(s) ==
    IF AllIn(s, Whitespace) THEN <<>>
    ELSE LET lo == CHOOSE i \in 1..Len(s) :
                       s[i] \notin Whitespace /\ \A j \in 1..(i - 1) : s[j] \in Whitespace
             hi == CHOOSE i \in 1..Len(s) :
                       s[i] \notin Whitespace /\ \A j \in (i + 1)..Len(s) : s[j] \in Whitespace
         IN  SubSeq(s, lo, hi)

\* c * n
Repeat(c, n) == [i \in 1..n |-> c]

\* s with the character c inserted before each of the positions in marks
InsertBefore(s, marks, c) ==
    IF marks = {} THEN s
    ELSE LET start(i) == i + Cardinality({m \in marks : m < i})
         IN  [k \in 1..(Len(s) + Cardinality(marks)) |->
                 LET i == CHOOSE i \in 1..Len(s) :
                              /\ start(i) <= k
                              /\ k <= start(i) + (IF i \in marks THEN 1 ELSE 0)
                 IN  IF i \in marks /\ k = start(i) THEN c ELSE s[i]]

DigitVal(c) == (CHOOSE i \in 1..10 : DigitSeq[i] = c) - 1

\* str(n) for a natural number n
RECURSIVE NatToStr(_)
NatToStr(n) ==
    IF n < 10 THEN <<DigitSeq[n + 1]>>
    ELSE NatToStr(n \div 10) \o <<DigitSeq[(n % 10) + 1]>>

(***************************************************************************)
(* The cells the columns of the model are made of.                         *)
(***************************************************************************)
C_email == <<"a","@","b",".","c","o">>
C_emailPadded == <<" ","c","@","d",".","o","r","g">>
C_twoAt == <<"a","@","b","@","c",".","d","e">>
C_phoneDigits == <<"5","5","5","1","2","3","4">>
C_phone == <<"5","5","5","-","1","2","3","4">>
C_url == <<"h","t","t","p",":","/","/","a",".","b">>
C_date == <<"2","0","2","3","-","0","1","-","0","1">>
C_time == <<"1","2",":","3","0">>
C_true == <<"t","r","u","e">>
C_one == <<"1">>
C_uuid == <<"1","2","3","e","4","5","6","7","-","e","8","9","b","-","1","2","d","3","-","a","4","5","6","-","4","2","6","6","1","4","1","7","4","0","0","0">>
C_int == <<"4","2">>
C_int300 == <<"3","0","0">>
C_negative == <<"-","7">>
C_big == <<"4","2","9","4","9","6","7","2","9","6">>
C_huge == <<"1","0","0","0","0","0","0","0","0","0","0","0","0","0","0","0","0","0","0","0","0">>
\* integers on both sides of the bounds of _classify_integer_type
C_255 == <<"2","5","5">>
C_256 == <<"2","5","6">>
C_65535 == <<"6","5","5","3","5">>
C_65536 == <<"6","5","5","3","6">>
C_uintMax == <<"4","2","9","4","9","6","7","2","9","5">>
C_m128 == <<"-","1","2","8">>
C_m129 == <<"-","1","2","9">>
C_127 == <<"1","2","7">>
C_128 == <<"1","2","8">>
C_m32768 == <<"-","3","2","7","6","8">>
C_m32769 == <<"-","3","2","7","6","9">>
C_32767 == <<"3","2","7","6","7">>
C_32768 == <<"3","2","7","6","8">>
C_intMin == <<"-","2","1","4","7","4","8","3","6","4","8">>
C_intMinLess == <<"-","2","1","4","7","4","8","3","6","4","9">>
C_intMax == <<"2","1","4","7","4","8","3","6","4","7">>
C_intMaxMore == <<"2","1","4","7","4","8","3","6","4","8">>
\* texts on both sides of the bounds of _analyze_string_type
C_text10 == Repeat("t", 10)
C_text11 == Repeat("t", 11)
C_text100 == Repeat("t", 100)
C_text101 == Repeat("t", 101)
C_text255 == Repeat("t", 255)
C_text256 == Repeat("t", 256)
C_text1000 == Repeat("t", 1000)
C_text1001 == Repeat("t", 1001)
C_decimal == <<"3",".","5">>
C_text == <<"a","b","c">>
C_upper == <<"A","B","C">>
C_sentence == <<"h","e","l","l","o"," ","w","o","r","l","d","!">>

\* a null cell (NaN) of a Series
NULL == <<"<NaN>">>

\* the families of cells a column is read from, with the column's name and
\* which of the bounds on the number of cells applies
Profiles == <<
    [name |-> <<"v","a","l","u","e">>, len |-> "short",
     cells |-> {NULL, C_email, C_emailPadded, C_phoneDigits, C_one, C_int,
                C_negative, C_text}],
    [name |-> <<"O","t","h","e","r">>, len |-> "short",
     cells |-> {NULL, C_decimal, C_upper, C_text, C_date, C_url, C_int300,
                C_sentence}],
    [name |-> <<"m","i","s","c">>, len |-> "short",
     cells |-> {NULL, C_time, C_uuid, C_true, C_phone, C_twoAt, C_email, C_big,
                C_huge}],
    [name |-> <<"e","m","a","i","l">>, len |-> "medium", cells |-> {NULL, C_email, C_text}],
    [name |-> <<"a","g","e">>, len |-> "long", cells |-> {C_int, C_text}],
    [name |-> <<"a","c","t","i","v","e">>, len |-> "medium", cells |-> {C_one, C_int300}],
    [name |-> <<"c","u","s","t","o","m","e","r","_","i","d">>, len |-> "medium", cells |-> {C_phoneDigits, C_int}],
    [name |-> <<"q","u","a","n","t","i","t","y">>, len |-> "short",
     cells |-> {C_int, C_255, C_256, C_65535, C_65536, C_uintMax, C_big, C_huge}],
    [name |-> <<"d","e","l","t","a">>, len |-> "short",
     cells |-> {C_negative, C_m128, C_m129, C_127, C_128, C_m32768, C_m32769,
                C_32767, C_32768}],
    [name |-> <<"o","f","f","s","e","t">>, len |-> "short",
     cells |-> {C_negative, C_int, C_intMin, C_intMinLess, C_intMax, C_intMaxMore,
                C_text}],
    [name |-> <<"n","o","t","e","s">>, len |-> "pair",
     cells |-> {NULL, C_text, C_text10, C_text11, C_text100, C_text101}],
    [name |-> <<"e","s","s","a","y">>, len |-> "pair",
     cells |-> {C_text255, C_text256, C_text1000, C_text1001}]
>>

\* every string a cell of the model holds, as read and trimmed
CellStrings ==
    LET raw == UNION {Profiles[p].cells : p \in 1..Len(Profiles)} \ {NULL}
    IN  raw \cup {Strip(s) : s \in raw}

(***************************************************************************)
(* Values that are not Python strings.                                     *)
(***************************************************************************)
\* Python's None
None == <<"<None>">>

(***************************************************************************)
(* constants.py: TYPE_PATTERNS.  Each pattern is matched as pandas'         *)
(* Series.str.match(pattern, case=False) matches it: re.match, anchored at *)
(* the start of the string, ignoring case.                                 *)
(***************************************************************************)
\* s has exactly the shape given by the sequence of character classes
Shape(s, classes) ==
    Len(s) = Len(classes) /\ \A i \in 1..Len(s) : s[i] \in classes[i]

EmailLocalCh == Letter \cup Digit \cup {".", "_", "%", "+", "-"}
EmailDomainCh == Letter \cup Digit \cup {".", "-"}

\* ^[a-zA-Z0-9._%+-]+@[a-zA-Z0-9.-]+\.[a-zA-Z]{2,}$
MatchEmail(s) ==
    \E i \in 2..Len(s) : \E j \in (i + 2)..Len(s) :
        /\ s[i] = "@"
        /\ s[j] = "."
        /\ AllIn(SubSeq(s, 1, i - 1), EmailLocalCh)
        /\ AllIn(SubSeq(s, i + 1, j - 1), EmailDomainCh)
        /\ Len(s) - j >= 2
        /\ AllIn(SubSeq(s, j + 1, Len(s)), Letter)

PhoneCh == Digit \cup Whitespace \cup {"-", "(", ")", "."}

\* ^[\+]?[\d\s\-\(\)\.]{7,20}$
MatchPhone(s) ==
    \/ Len(s) \in 7..20 /\ AllIn(s, PhoneCh)
    \/ Len(s) - 1 \in 7..20 /\ s[1] = "+" /\ AllIn(Tail(s), PhoneCh)

\* ^https?://[^\s]+$
MatchUrl(s) ==
    LET l == StrLower(s)
        rest(k) == Suffix(s, k + 3)
        from(k) == /\ Slice(l, k, k + 3) = <<":","/","/">>
                   /\ rest(k) # <<>>
                   /\ \A i \in 1..Len(rest(k)) : rest(k)[i] \notin Whitespace
    IN  \/ Prefix(l, 4) = <<"h","t","t","p">> /\ from(4)
        \/ Prefix(l, 5) = <<"h","t","t","p","s">> /\ from(5)

DateSepCh == {"/", "-"}

\* ^\d{4}-\d{2}-\d{2}|\d{2}[/\-]\d{2}[/\-]\d{4}|\d{1,2}[/\-]\d{1,2}[/\-]\d{2,4}$
\* The alternation binds weaker than the anchors: only the third alternative
\* is anchored at the end of the string.
MatchDate(s) ==
    \/ Shape(Prefix(s, 10),
             <<Digit, Digit, Digit, Digit, {"-"}, Digit, Digit, {"-"}, Digit, Digit>>)
    \/ Shape(Prefix(s, 10),
             <<Digit, Digit, DateSepCh, Digit, Digit, DateSepCh,
               Digit, Digit, Digit, Digit>>)
    \/ \E a \in 1..2 : \E b \in 1..2 : \E c \in 2..4 :
          Shape(s, Repeat(Digit, a) \o <<DateSepCh>> \o Repeat(Digit, b)
                       \o <<DateSepCh>> \o Repeat(Digit, c))

\* ^\d{1,2}:\d{2}(:\d{2})?(\s?(AM|PM|am|pm))?$
MatchTime(s) ==
    \E a \in 1..2 : \E sec \in BOOLEAN :
        LET head == Repeat(Digit, a) \o <<{":"}, Digit, Digit>>
                      \o (IF sec THEN <<{":"}, Digit, Digit>> ELSE <<>>)
            rest == Suffix(s, Len(head))
            ampm == {<<"a","m">>, <<"p","m">>}
        IN  /\ Shape(Prefix(s, Len(head)), head)
            /\ \/ rest = <<>>
               \/ StrLower(rest) \in ampm
               \/ /\ Len(rest) = 3
                  /\ rest[1] \in Whitespace
                  /\ StrLower(Tail(rest)) \in ampm

\* ^(true|false|yes|no|y|n|1|0|t|f)$
MatchBoolean(s) ==
    StrLower(s) \in {<<"t","r","u","e">>, <<"f","a","l","s","e">>, <<"y","e","s">>, <<"n","o">>, <<"y">>, <<"n">>,
                     <<"1">>, <<"0">>, <<"t">>, <<"f">>}

\* ^[0-9a-f]{8}-[0-9a-f]{4}-[0-9a-f]{4}-[0-9a-f]{4}-[0-9a-f]{12}$
MatchUuid(s) ==
    Shape(s, Repeat(HexCh, 8) \o <<{"-"}>> \o Repeat(HexCh, 4) \o <<{"-"}>>
                 \o Repeat(HexCh, 4) \o <<{"-"}>> \o Repeat(HexCh, 4)
                 \o <<{"-"}>> \o Repeat(HexCh, 12))

T_email == <<"e","m","a","i","l">>
T_phone == <<"p","h","o","n","e">>
T_url == <<"u","r","l">>
T_date == <<"d","a","t","e">>
T_time == <<"t","i","m","e">>
T_boolean == <<"b","o","o","l","e","a","n">>
T_uuid == <<"u","u","i","d">>

\* the keys of TYPE_PATTERNS in declaration (= iteration) order
TYPE_PATTERNS == <<T_email, T_phone, T_url, T_date, T_time, T_boolean, T_uuid>>

\* re.match(TYPE_PATTERNS[pattern_name], s, re.IGNORECASE)
RegexMatches(pattern_name, s) ==
    CASE pattern_name = T_email -> MatchEmail(s)
      [] pattern_name = T_phone -> MatchPhone(s)
      [] pattern_name = T_url -> MatchUrl(s)
      [] pattern_name = T_date -> MatchDate(s)
      [] pattern_name = T_time -> MatchTime(s)
      [] pattern_name = T_boolean -> MatchBoolean(s)
      [] pattern_name = T_uuid -> MatchUuid(s)

\* the patterns each string of the model's cells matches, computed once
MatchTable == [s \in CellStrings |-> {k \in 1..Len(TYPE_PATTERNS) : RegexMatches(TYPE_PATTERNS[k], s)}]

\* str.match(TYPE_PATTERNS[pattern_name], case=False) on one value
PatternMatches(pattern_name, s) ==
    IF s \in CellStrings
    THEN \E k \in MatchTable[s] : TYPE_PATTERNS[k] = pattern_name
    ELSE RegexMatches(pattern_name, s)

(***************************************************************************)
(* Numbers.  pd.to_numeric turns a cell into a number; the comparisons of  *)
(* the classifier are against bounds up to 4294967295, beyond the integers *)
(* TLC computes with, so a number is kept as its decimal digits:           *)
(* [neg, ip, fp] with ip the integer part without leading zeros and fp the *)
(* fractional part without trailing zeros.                                 *)
(***************************************************************************)
RECURSIVE StripLeadingZeros(_)
StripLeadingZeros(d) ==
    IF d # <<>> /\ Head(d) = "0" THEN StripLeadingZeros(Tail(d)) ELSE d

RECURSIVE StripTrailingZeros(_)
StripTrailingZeros(d) ==
    IF d # <<>> /\ d[Len(d)] = "0"
    THEN StripTrailingZeros(SubSeq(d, 1, Len(d) - 1))
    ELSE d

MkNum(neg, ip, fp) ==
    LET i == StripLeadingZeros(ip)
        f == StripTrailingZeros(fp)
    IN  [neg |-> neg /\ (i # <<>> \/ f # <<>>), ip |-> i, fp |-> f]

\* an integer literal of the source, from its sign and digits
IntLit(neg, digits) == MkNum(neg, digits, <<>>)

\* what pd.to_numeric(errors='coerce') puts in place of a cell it cannot parse
NaN == [neg |-> FALSE, ip |-> <<"NaN">>, fp |-> <<>>]

\* pd.to_numeric(errors='coerce') on one string cell: the number, or NaN.
\* Decimal notation [+-]digits[.digits], with surrounding whitespace ignored;
\* the cells of the model use no other notation (exponents, inf, hex).
ParseDecimal(cell) ==
    LET s == Strip(cell)
        signed == s # <<>> /\ s[1] \in {"+", "-"}
        body == IF signed THEN Tail(s) ELSE s
        dots == {i \in 1..Len(body) : body[i] = "."}
        dot == IF dots = {} THEN Len(body) + 1 ELSE CHOOSE i \in dots : TRUE
        ip == SubSeq(body, 1, dot - 1)
        fp == SubSeq(body, dot + 1, Len(body))
    IN  IF /\ Cardinality(dots) <= 1
           /\ ip # <<>>
           /\ AllIn(ip, Digit)
           /\ AllIn(fp, Digit)
           /\ (dots # {} => fp # <<>>)
        THEN MkNum(signed /\ s[1] = "-", ip, fp)
        ELSE NaN

\* what the strings of the model's cells coerce to, computed once
NumberTable == [s \in CellStrings |-> ParseDecimal(s)]

\* pd.to_numeric(errors='coerce') on one cell
ParseNumber(cell) ==
    IF cell \in CellStrings THEN NumberTable[cell] ELSE ParseDecimal(cell)

\* x < y for digit strings read as integer parts (no leading zeros)
IntPartLess(x, y) ==
    \/ Len(x) < Len(y)
    \/ /\ Len(x) = Len(y)
       /\ \E i \in 1..Len(x) :
            /\ DigitVal(x[i]) < DigitVal(y[i])
            /\ \A j \in 1..(i - 1) : x[j] = y[j]

\* x < y for digit strings read as fractional parts (no trailing zeros)
FracPartLess(x, y) ==
    \/ \E i \in 1..Len(x) :
          /\ i <= Len(y)
          /\ DigitVal(x[i]) < DigitVal(y[i])
          /\ \A j \in 1..(i - 1) : x[j] = y[j]
    \/ Len(x) < Len(y) /\ SubSeq(y, 1, Len(x)) = x

\* |a| < |b|
MagLess(a, b) ==
    \/ IntPartLess(a.ip, b.ip)
    \/ a.ip = b.ip /\ FracPartLess(a.fp, b.fp)

\* a < b
NumLess(a, b) ==
    CASE a.neg /\ ~b.neg -> TRUE
      [] ~a.neg /\ b.neg -> FALSE
      [] ~a.neg /\ ~b.neg -> MagLess(a, b)
      [] a.neg /\ b.neg -> MagLess(b, a)

\* a <= b
NumLeq(a, b) == a = b \/ NumLess(a, b)

\* value % 1 == 0
IsIntegral(v) == v.fp = <<>>

\* Series.min() / Series.max() of a non-empty sequence of numbers
NumMin(nums) ==
    LET S == Range(nums) IN CHOOSE m \in S : \A v \in S : NumLeq(m, v)

NumMax(nums) ==
    LET S == Range(nums) IN CHOOSE m \in S : \A v \in S : NumLeq(v, m)

(***************************************************************************)
(* services/schema_inference.py: SchemaInferenceEngine, the classifier.    *)
(* A Series is a sequence of cells, each a string or NULL.                 *)
(***************************************************************************)
IsNull(cell) == cell = NULL

\* variant: null cells stay in the series
KeepNa(series) == series

\* Series.dropna()
DropNa(series) == SelectSeq(series, LAMBDA c : ~IsNull(c))

\* non_null_series.astype(str).str.strip()
StrSeries(non_null_series) ==
    [i \in 1..Len(non_null_series) |-> Strip(non_null_series[i])]

\* matches.sum(): how many values of str_series match the pattern
MatchesSum(str_series, pattern_name) ==
    Cardinality({i \in 1..Len(str_series) : PatternMatches(pattern_name, str_series[i])})

\* series.isnull().sum()
IsNullSum(series) == Cardinality({i \in 1..Len(series) : IsNull(series[i])})

\* threshold = 0.8, as a percentage
PatternThresholdPct == 80

\* the 0.9 of "at least 90% numeric", as a percentage
NumericThresholdPct == 90

\* variant: the threshold is counted inclusively (exactly 80% qualifies)
ClearsThresholdInclusive(matches, total_count) ==
    matches * 100 >= total_count * PatternThresholdPct

\* variant: a pattern needs more than 90% of the values
ClearsThresholdNinety(matches, total_count) ==
    matches * 100 > total_count * 90

\* matches > total_count * threshold.  The float product and the comparison
\* agree with the exact ones for every total_count up to 2000.
ClearsThreshold(matches, total_count) ==
    matches * 100 > total_count * PatternThresholdPct

\* the first pattern of seq TYPE_PATTERNS[k..] that clears the threshold
RECURSIVE FirstPatternFrom(_, _)
FirstPatternFrom(str_series, k) ==
    IF k > Len(TYPE_PATTERNS) THEN None
    ELSE IF ClearsThreshold(
                 MatchesSum(str_series, TYPE_PATTERNS[k]),
                 Len(str_series))
         THEN TYPE_PATTERNS[k]
         ELSE FirstPatternFrom(str_series, k + 1)

_detect_patterns(str_series) == FirstPatternFrom(str_series, 1)

_get_mysql_type_for_pattern(pattern_name) ==
    CASE pattern_name = T_email -> <<"V","A","R","C","H","A","R","(","1","0","0",")">>
      [] pattern_name = T_phone -> <<"V","A","R","C","H","A","R","(","2","5",")">>
      [] pattern_name = T_url -> <<"V","A","R","C","H","A","R","(","5","0","0",")">>
      [] pattern_name = T_date -> <<"D","A","T","E">>
      [] pattern_name = T_time -> <<"T","I","M","E">>
      [] pattern_name = T_boolean -> <<"B","O","O","L","E","A","N">>
      [] pattern_name = T_uuid -> <<"C","H","A","R","(","3","6",")">>
      [] OTHER -> <<"T","E","X","T">>

\* IntLit(neg, digits) <= v
AtLeast(v, neg, digits) == NumLeq(IntLit(neg, digits), v)

\* v <= IntLit(neg, digits)
AtMost(v, neg, digits) == NumLeq(v, IntLit(neg, digits))

\* the branches of _classify_integer_type, from min_val and max_val
IntegerTypeOfRange(min_val, max_val) ==
    IF AtLeast(min_val, FALSE, <<"0">>)
    THEN IF AtMost(max_val, FALSE, <<"2","5","5">>)
             THEN <<<<"t","i","n","y","i","n","t","_","u","n","s","i","g","n","e","d">>, <<"T","I","N","Y","I","N","T"," ","U","N","S","I","G","N","E","D">>>>
         ELSE IF AtMost(max_val, FALSE, <<"6","5","5","3","5">>)
             THEN <<<<"s","m","a","l","l","i","n","t","_","u","n","s","i","g","n","e","d">>, <<"S","M","A","L","L","I","N","T"," ","U","N","S","I","G","N","E","D">>>>
         ELSE IF AtMost(max_val, FALSE, <<"4","2","9","4","9","6","7","2","9","5">>)
             THEN <<<<"i","n","t","_","u","n","s","i","g","n","e","d">>, <<"I","N","T"," ","U","N","S","I","G","N","E","D">>>>
         ELSE <<<<"b","i","g","i","n","t","_","u","n","s","i","g","n","e","d">>, <<"B","I","G","I","N","T"," ","U","N","S","I","G","N","E","D">>>>
    ELSE IF AtLeast(min_val, TRUE, <<"1","2","8">>) /\ AtMost(max_val, FALSE, <<"1","2","7">>)
             THEN <<<<"t","i","n","y","i","n","t">>, <<"T","I","N","Y","I","N","T">>>>
         ELSE IF AtLeast(min_val, TRUE, <<"3","2","7","6","8">>) /\ AtMost(max_val, FALSE, <<"3","2","7","6","7">>)
             THEN <<<<"s","m","a","l","l","i","n","t">>, <<"S","M","A","L","L","I","N","T">>>>
         ELSE IF AtLeast(min_val, TRUE, <<"2","1","4","7","4","8","3","6","4","8">>)
                 /\ AtMost(max_val, FALSE, <<"2","1","4","7","4","8","3","6","4","7">>)
             THEN <<<<"i","n","t">>, <<"I","N","T">>>>
         ELSE <<<<"b","i","g","i","n","t">>, <<"B","I","G","I","N","T">>>>

_classify_integer_type(valid_numbers) ==
    IntegerTypeOfRange(NumMin(valid_numbers), NumMax(valid_numbers))

\* str(float).split('.')[1]: the digits after the point of the float's repr,
\* which has at least one ("2.0")
DecimalPlaces(v) == IF v.fp = <<>> THEN 1 ELSE Len(v.fp)

MaxOf(S) == CHOOSE m \in S : \A x \in S : x <= m

\* the branches of _classify_decimal_type, from max_decimal_places
DecimalTypeOfPlaces(max_decimal_places) ==
    IF max_decimal_places <= 4 THEN <<<<"d","e","c","i","m","a","l">>, <<"D","E","C","I","M","A","L","(","1","5",",","4",")">>>>
    ELSE IF max_decimal_places <= 6 THEN <<<<"d","e","c","i","m","a","l">>, <<"D","E","C","I","M","A","L","(","2","0",",","6",")">>>>
    ELSE <<<<"f","l","o","a","t">>, <<"F","L","O","A","T">>>>

_classify_decimal_type(valid_numbers) ==
    DecimalTypeOfPlaces(
        MaxOf({DecimalPlaces(valid_numbers[i]) : i \in 1..Len(valid_numbers)}))

\* the None a phase returns in place of a (logical_type, mysql_type) pair
NoType == <<None, None>>

\* variant: exactly 90% numeric does not qualify
EnoughNumericStrict(valid_count, total_count) ==
    valid_count * 100 > total_count * NumericThresholdPct

\* valid_numeric.sum() < len(series) * 0.9 is the negation of this.  The float
\* product and the comparison agree with the exact ones for every len(series)
\* up to 2000.
EnoughNumeric(valid_count, total_count) ==
    ~(valid_count * 100 < total_count * NumericThresholdPct)

\* pd.to_numeric(series, errors='coerce') without its NaN entries
CoerceNumeric(series) ==
    SelectSeq([i \in 1..Len(series) |-> ParseNumber(series[i])], LAMBDA v : v # NaN)

\* the body of _detect_numeric_types, from the numbers the cells coerce to
NumericTypeOf(valid_numbers, total_count) ==
    IF ~EnoughNumeric(Len(valid_numbers), total_count) THEN NoType
    ELSE IF \A i \in 1..Len(valid_numbers) : IsIntegral(valid_numbers[i])
         THEN _classify_integer_type(valid_numbers)
         ELSE _classify_decimal_type(valid_numbers)

_detect_numeric_types(series) == NumericTypeOf(CoerceNumeric(series), Len(series))

MinOf2(a, b) == IF a <= b THEN a ELSE b

VarcharOf(size) == <<"V","A","R","C","H","A","R","(">> \o NatToStr(size) \o <<")">>

\* variant: the bounds of the bands are exclusive
StringTypeOfLengthExclusive(max_length) ==
    IF max_length < 10
        THEN <<<<"s","h","o","r","t","_","s","t","r","i","n","g">>, VarcharOf(MinOf2(50, max_length + 10))>>
    ELSE IF max_length < 100
        THEN <<<<"s","t","r","i","n","g">>, VarcharOf(MinOf2(255, max_length + 20))>>
    ELSE IF max_length < 255 THEN <<<<"s","t","r","i","n","g">>, <<"V","A","R","C","H","A","R","(","2","5","5",")">>>>
    ELSE IF max_length < 1000 THEN <<<<"m","e","d","i","u","m","_","s","t","r","i","n","g">>, <<"T","E","X","T">>>>
    ELSE <<<<"l","o","n","g","_","s","t","r","i","n","g">>, <<"L","O","N","G","T","E","X","T">>>>

\* the branches of _analyze_string_type, from max_length
StringTypeOfLength(max_length) ==
    IF max_length <= 10
        THEN <<<<"s","h","o","r","t","_","s","t","r","i","n","g">>, VarcharOf(MinOf2(50, max_length + 10))>>
    ELSE IF max_length <= 100
        THEN <<<<"s","t","r","i","n","g">>, VarcharOf(MinOf2(255, max_length + 20))>>
    ELSE IF max_length <= 255 THEN <<<<"s","t","r","i","n","g">>, <<"V","A","R","C","H","A","R","(","2","5","5",")">>>>
    ELSE IF max_length <= 1000 THEN <<<<"m","e","d","i","u","m","_","s","t","r","i","n","g">>, <<"T","E","X","T">>>>
    ELSE <<<<"l","o","n","g","_","s","t","r","i","n","g">>, <<"L","O","N","G","T","E","X","T">>>>

_analyze_string_type(str_series) ==
    StringTypeOfLength(MaxOf({Len(str_series[i]) : i \in 1..Len(str_series)}))

\* Phase 2, and Phase 3 when it does not match
NumericPhase(numeric_type, str_series) ==
    IF numeric_type # NoType THEN numeric_type ELSE _analyze_string_type(str_series)

\* Phase 1, and the later phases when it does not match
PatternPhase(pattern_type, non_null_series, str_series) ==
    IF pattern_type # None
    THEN <<pattern_type, _get_mysql_type_for_pattern(pattern_type)>>
    ELSE NumericPhase(_detect_numeric_types(non_null_series), str_series)

\* variant: a column without values goes through the phases like any other
InferNonNullNoEarlyReturn(non_null_series, str_series) ==
    IF Len(non_null_series) = 0 THEN StringTypeOfLength(0)
    ELSE PatternPhase(_detect_patterns(str_series), non_null_series, str_series)

\* _infer_types after dropna()
InferNonNull(non_null_series, str_series) ==
    IF Len(non_null_series) = 0 THEN <<<<"u","n","k","n","o","w","n">>, <<"T","E","X","T">>>>
    ELSE PatternPhase(_detect_patterns(str_series), non_null_series, str_series)

InferOfNonNull(non_null_series) == InferNonNull(non_null_series, StrSeries(non_null_series))

\* (logical_type, mysql_type)
_infer_types(series) == InferOfNonNull(DropNa(series))

(***************************************************************************)
(* Integer arithmetic on digit strings, for the quartiles of the Quality   *)
(* Analyzer.  A signed integer is [neg, mag], mag a digit string without   *)
(* leading zeros (<<>> is zero).  The arithmetic is exact where pandas     *)
(* computes in float64.                                                    *)
(***************************************************************************)
LastDigit(x) == IF x = <<>> THEN 0 ELSE DigitVal(x[Len(x)])
Front(x) == IF x = <<>> THEN <<>> ELSE SubSeq(x, 1, Len(x) - 1)

RECURSIVE AddCarry(_, _, _)
AddCarry(x, y, c) ==
    IF x = <<>> /\ y = <<>>
    THEN IF c = 0 THEN <<>> ELSE <<DigitSeq[c + 1]>>
    ELSE LET s == LastDigit(x) + LastDigit(y) + c
         IN  AddCarry(Front(x), Front(y), s \div 10) \o <<DigitSeq[(s % 10) + 1]>>

\* x + y
MagAdd(x, y) == StripLeadingZeros(AddCarry(x, y, 0))

RECURSIVE SubBorrow(_, _, _)
SubBorrow(x, y, b) ==
    IF x = <<>> THEN <<>>
    ELSE LET d == LastDigit(x) - LastDigit(y) - b
         IN  SubBorrow(Front(x), Front(y), IF d < 0 THEN 1 ELSE 0)
                 \o <<DigitSeq[(IF d < 0 THEN d + 10 ELSE d) + 1]>>

\* x - y, for x >= y
MagSub(x, y) == StripLeadingZeros(SubBorrow(x, y, 0))

MkInt(neg, mag) == [neg |-> neg /\ mag # <<>>, mag |-> mag]

IntNeg(a) == MkInt(~a.neg, a.mag)

IntAdd(a, b) ==
    IF a.neg = b.neg THEN MkInt(a.neg, MagAdd(a.mag, b.mag))
    ELSE IF IntPartLess(a.mag, b.mag) THEN MkInt(b.neg, MagSub(b.mag, a.mag))
    ELSE MkInt(a.neg, MagSub(a.mag, b.mag))

IntSub(a, b) == IntAdd(a, IntNeg(b))

\* k * a, for a natural number k
RECURSIVE IntTimes(_, _)
IntTimes(k, a) == IF k = 0 THEN MkInt(FALSE, <<>>) ELSE IntAdd(a, IntTimes(k - 1, a))

\* a < b
IntLess(a, b) ==
    CASE a.neg /\ ~b.neg -> TRUE
      [] ~a.neg /\ b.neg -> FALSE
      [] ~a.neg /\ ~b.neg -> IntPartLess(a.mag, b.mag)
      [] a.neg /\ b.neg -> IntPartLess(b.mag, a.mag)

\* the number v times 10^places, for places >= Len(v.fp)
Scaled(v, places) ==
    MkInt(v.neg, StripLeadingZeros(v.ip \o v.fp \o Repeat("0", places - Len(v.fp))))

\* the numbers of a sequence in ascending order
RECURSIVE SortNums(_)
SortNums(nums) ==
    IF nums = <<>> THEN <<>>
    ELSE LET k == CHOOSE i \in 1..Len(nums) :
                      \A j \in 1..Len(nums) : NumLeq(nums[i], nums[j])
         IN  <<nums[k]>> \o SortNums(SubSeq(nums, 1, k - 1)
                                         \o SubSeq(nums, k + 1, Len(nums)))

(***************************************************************************)
(* services/schema_inference.py: the Quality Analyzer.  A finding is kept  *)
(* as the fixed part of its message; the percentage a message embeds is    *)
(* display text and is left out.                                           *)
(***************************************************************************)
R_HighNull == "High null rate - evaluate column necessity"
R_SignificantNull == "Significant null rate - implement null handling strategy"
R_ModerateNull == "Moderate null rate - consider default values"
R_Whitespace == "Leading/trailing whitespace detected - consider trimming"
R_Casing == "Inconsistent casing detected - standardize case if needed"
R_LongText == "Very long text values detected - consider TEXT type or truncation"
R_EmptyStrings == "Empty strings detected - standardize with nulls"
R_Outliers == "Statistical outliers detected - review extreme values"
R_Identical == "All numeric values are identical - consider constant handling"
R_MultipleAt == "Multiple @ symbols detected in some email addresses"
R_PhoneFormats == "Inconsistent phone number formats - consider standardization"

NullFindings == {R_HighNull, R_SignificantNull, R_ModerateNull}

\* the findings for the set of values of the column
StringFindings(values) ==
    (IF \E s \in values : Strip(s) # s THEN <<R_Whitespace>> ELSE <<>>)
    \o (IF Cardinality(values) # Cardinality({StrLower(s) : s \in values})
        THEN <<R_Casing>> ELSE <<>>)
    \o (IF MaxOf({Len(s) : s \in values}) > 1000 THEN <<R_LongText>> ELSE <<>>)
    \o (IF \E s \in values : s = <<>> THEN <<R_EmptyStrings>> ELSE <<>>)

_analyze_string_quality(series) == StringFindings(Range(series))

\* Series.quantile(q) times 4 for q = quarter/4, by linear interpolation
\* between the neighbours of position (n - 1) * q of the sorted values
Quantile4(sorted, quarter) ==
    LET n == Len(sorted)
        k == (quarter * (n - 1)) \div 4
        r == (quarter * (n - 1)) % 4
        lo == sorted[k + 1]
        hi == IF r = 0 THEN lo ELSE sorted[k + 2]
    IN  IntAdd(IntTimes(4, lo), IntTimes(r, IntSub(hi, lo)))

\* the outlier finding, from the sorted values and 4 * Q1, 4 * Q3, 4 * IQR:
\* a value is an outlier when 8 * value is outside
\* [8 * Q1 - 12 * IQR, 8 * Q3 + 12 * IQR]
OutlierFinding(sorted, Q1, Q3, IQR) ==
    IF /\ IntLess(MkInt(FALSE, <<>>), IQR)
       /\ \E i \in 1..Len(sorted) :
             \/ IntLess(IntTimes(8, sorted[i]), IntSub(IntTimes(2, Q1), IntTimes(3, IQR)))
             \/ IntLess(IntAdd(IntTimes(2, Q3), IntTimes(3, IQR)), IntTimes(8, sorted[i]))
    THEN <<R_Outliers>> ELSE <<>>

\* the findings for the values in ascending order
NumericFindings(sorted, Q1, Q3) ==
    OutlierFinding(sorted, Q1, Q3, IntSub(Q3, Q1))
    \o (IF sorted[1] = sorted[Len(sorted)] THEN <<R_Identical>> ELSE <<>>)

\* the numbers as integers, all times the same power of ten
ScaleAll(nums, places) == [i \in 1..Len(nums) |-> Scaled(nums[i], places)]

FindingsOfSorted(sorted) ==
    NumericFindings(sorted, Quantile4(sorted, 1), Quantile4(sorted, 3))

FindingsOfNumbers(numeric_series) ==
    IF Len(numeric_series) = 0 THEN <<>>
    ELSE FindingsOfSorted(
             ScaleAll(SortNums(numeric_series),
                      MaxOf({Len(numeric_series[i].fp) : i \in 1..Len(numeric_series)})))

_analyze_numeric_quality(series) == FindingsOfNumbers(CoerceNumeric(series))

RECURSIVE SumSeq(_)
SumSeq(q) == IF q = <<>> THEN 0 ELSE Head(q) + SumSeq(Tail(q))

\* lengths.std() > 2, with the sample standard deviation (NaN for one value)
\* variance > 4, from n, the sum and the sum of squares
VarianceAbove4(n, s1, s2) == n >= 2 /\ n * s2 - s1 * s1 > 4 * n * (n - 1)

StdAbove2(lengths) ==
    VarianceAbove4(Len(lengths), SumSeq(lengths),
                   SumSeq([i \in 1..Len(lengths) |-> lengths[i] * lengths[i]]))

_analyze_pattern_quality(series, pattern_type) ==
    IF pattern_type = T_email
    THEN IF \E i \in 1..Len(series) : Occurrences(series[i], <<"@">>) >= 2
         THEN <<R_MultipleAt>> ELSE <<>>
    ELSE IF pattern_type = T_phone
    THEN IF StdAbove2([i \in 1..Len(series) |-> Len(series[i])])
         THEN <<R_PhoneFormats>> ELSE <<>>
    ELSE <<>>

\* null_percentage > limit, for null_percentage = null_count / total_count * 100
\* (0 for an empty column); the float quotient and the exact one compare alike
\* with 50, 20 and 5 for every total_count up to 60
NullPctAbove(null_count, total_count, limit) ==
    total_count > 0 /\ null_count * 100 > limit * total_count

\* variant: a tier starts at its limit
NullFindingFromLimit(null_count, total_count) ==
    IF total_count > 0 /\ null_count * 100 >= 50 * total_count THEN <<R_HighNull>>
    ELSE IF total_count > 0 /\ null_count * 100 >= 20 * total_count THEN <<R_SignificantNull>>
    ELSE IF total_count > 0 /\ null_count * 100 >= 5 * total_count THEN <<R_ModerateNull>>
    ELSE <<>>

\* the null-rate finding, if any
NullFinding(null_count, total_count) ==
    IF NullPctAbove(null_count, total_count, 50) THEN <<R_HighNull>>
    ELSE IF NullPctAbove(null_count, total_count, 20) THEN <<R_SignificantNull>>
    ELSE IF NullPctAbove(null_count, total_count, 5) THEN <<R_ModerateNull>>
    ELSE <<>>

\* the type-specific findings
TypeFindings(non_null_series, data_type) ==
    IF Len(non_null_series) = 0 THEN <<>>
    ELSE IF Contains(data_type, <<"s","t","r","i","n","g">>)
        THEN _analyze_string_quality(non_null_series)
    ELSE IF data_type \in {<<"d","e","c","i","m","a","l">>, <<"i","n","t">>, <<"b","i","g","i","n","t">>, <<"t","i","n","y","i","n","t">>, <<"s","m","a","l","l","i","n","t">>}
        THEN _analyze_numeric_quality(non_null_series)
    ELSE IF data_type \in {T_email, T_phone, T_url}
        THEN _analyze_pattern_quality(non_null_series, data_type)
    ELSE <<>>

\* null_percentage is null_count / total_count * 100 of the same series
_generate_cleaning_recommendations(series, data_type) ==
    NullFinding(IsNullSum(series), Len(series))
    \o TypeFindings(DropNa(series), data_type)

(***************************************************************************)
(* services/schema_inference.py: analyze_column.                           *)
(***************************************************************************)
\* the integer nearest to n / d, ties to the even one
RoundHalfEven(n, d) ==
    LET q == n \div d
        r == n % d
    IN  IF 2 * r < d THEN q
        ELSE IF 2 * r > d THEN q + 1
        ELSE IF q % 2 = 0 THEN q ELSE q + 1

\* variant: the percentage is taken of the non-null count
NullPercentageOfNonNull(null_count, total_count) ==
    IF total_count > null_count
    THEN RoundHalfEven(null_count * 10000, total_count - null_count)
    ELSE 0

\* round(float(null_percentage), 2), in hundredths of a percent.  Agrees with
\* the rounding of the float quotient for every total_count below 160.
NullPercentage(null_count, total_count) ==
    IF total_count > 0 THEN RoundHalfEven(null_count * 10000, total_count) ELSE 0

\* the ColumnAnalysis analyze_column builds from what it computed
ColumnAnalysis(name, series, non_null_series, null_count, types) ==
    [name |-> name,
     data_type |-> types[1],
     mysql_type |-> types[2],
     sample_values |-> Prefix(non_null_series, 5),
     null_count |-> null_count,
     unique_count |-> Cardinality(Range(non_null_series)),
     total_count |-> Len(series),
     null_percentage |-> NullPercentage(null_count, Len(series)),
     description |-> <<>>,
     cleaning_recommendations |->
         _generate_cleaning_recommendations(series, types[1])]

analyze_column(name, series) ==
    ColumnAnalysis(name, series, DropNa(series), IsNullSum(series),
                   _infer_types(series))


(***************************************************************************)
(* services/ddl_generator.py: DDLGenerator, the DDL synthesizer.           *)
(***************************************************************************)
\* self.reserved_words
reserved_words ==
    { <<"s","e","l","e","c","t">>, <<"i","n","s","e","r","t">>, <<"u","p","d","a","t","e">>, <<"d","e","l","e","t","e">>, <<"f","r","o","m">>, <<"w","h","e","r","e">>, <<"j","o","i","n">>,
      <<"i","n","n","e","r">>, <<"o","u","t","e","r">>, <<"l","e","f","t">>, <<"r","i","g","h","t">>, <<"o","n">>, <<"o","r","d","e","r">>, <<"b","y">>, <<"g","r","o","u","p">>,
      <<"h","a","v","i","n","g">>, <<"u","n","i","o","n">>, <<"c","r","e","a","t","e">>, <<"t","a","b","l","e">>, <<"i","n","d","e","x">>, <<"k","e","y">>, <<"p","r","i","m","a","r","y">>,
      <<"f","o","r","e","i","g","n">>, <<"r","e","f","e","r","e","n","c","e","s">>, <<"c","o","n","s","t","r","a","i","n","t">>, <<"a","l","t","e","r">>, <<"d","r","o","p">>, <<"d","a","t","a","b","a","s","e">>,
      <<"s","c","h","e","m","a">>, <<"v","i","e","w">>, <<"p","r","o","c","e","d","u","r","e">>, <<"f","u","n","c","t","i","o","n">>, <<"t","r","i","g","g","e","r">>, <<"u","s","e","r">>,
      <<"g","r","a","n","t">>, <<"r","e","v","o","k","e">>, <<"c","o","m","m","i","t">>, <<"r","o","l","l","b","a","c","k">>, <<"t","r","a","n","s","a","c","t","i","o","n">> }

\* the characters [a-zA-Z0-9_] keeps
IdentCh == Letter \cup Digit \cup {"_"}

\* re.sub(r'[^a-zA-Z0-9_]', '_', str(name))
ReplaceInvalid(name) ==
    [i \in 1..Len(name) |-> IF name[i] \in IdentCh THEN name[i] ELSE "_"]

\* if sanitized and sanitized[0].isdigit(): sanitized = f"col_{sanitized}"
NoLeadingDigit(sanitized) ==
    IF sanitized # <<>> /\ sanitized[1] \in Digit
    THEN <<"c","o","l","_">> \o sanitized
    ELSE sanitized

\* if not sanitized: return "unnamed_column"
NotEmpty(sanitized) ==
    IF sanitized = <<>> THEN <<"u","n","n","a","m","e","d","_","c","o","l","u","m","n">> ELSE sanitized

\* variant: the mark is appended to the first 64 characters
LimitLengthAfter64(sanitized) ==
    IF Len(sanitized) > 64
    THEN Prefix(sanitized, 64) \o <<"_","t","r">>
    ELSE sanitized

\* if len(sanitized) > 64: sanitized = sanitized[:61] + "_tr"
LimitLength(sanitized) ==
    IF Len(sanitized) > 64
    THEN Prefix(sanitized, 61) \o <<"_","t","r">>
    ELSE sanitized

\* variant: the length is limited before the leading digit is handled
SanitizeLimitFirst(name) ==
    IF name = <<>> THEN <<"u","n","n","a","m","e","d","_","c","o","l","u","m","n">>
    ELSE NoLeadingDigit(LimitLength(ReplaceInvalid(name)))

_sanitize_identifier(name) ==
    IF name = <<>> THEN <<"u","n","n","a","m","e","d","_","c","o","l","u","m","n">>
    ELSE LimitLength(NotEmpty(NoLeadingDigit(ReplaceInvalid(name))))

\* sep.join(parts)
RECURSIVE Join(_, _)
Join(sep, parts) ==
    IF parts = <<>> THEN <<>>
    ELSE IF Len(parts) = 1 THEN parts[1]
    ELSE parts[1] \o sep \o Join(sep, Tail(parts))

\* description.replace("'", "\\'")
EscapeQuotes(description) ==
    InsertBefore(description,
                 {i \in 1..Len(description) : description[i] = "'"}, "\\")

\* variant: the suffix is given to every column, reserved word or not
SuffixAlways(clean_name) == clean_name \o <<"_","c","o","l">>

\* if clean_name.lower() in self.reserved_words: clean_name = f"{clean_name}_col"
AvoidReserved(clean_name) ==
    IF StrLower(clean_name) \in reserved_words
    THEN clean_name \o <<"_","c","o","l">>
    ELSE clean_name

\* variant: a single null cell does not make the column nullable
NullableFromTwo(null_count) == IF null_count > 1 THEN <<"N","U","L","L">> ELSE <<"N","O","T"," ","N","U","L","L">>

\* nullable = "NULL" if column.null_count > 0 else "NOT NULL"
Nullable(null_count) == IF null_count > 0 THEN <<"N","U","L","L">> ELSE <<"N","O","T"," ","N","U","L","L">>

\* the COMMENT clause of a description, "" for a description that is empty
CommentClause(description) ==
    IF description = <<>> THEN <<>>
    ELSE <<"C","O","M","M","E","N","T"," ","'">> \o Prefix(EscapeQuotes(description), 100) \o <<"'">>

\* " ".join(filter(None, parts))
JoinNonEmpty(parts) == Join(<<" ">>, SelectSeq(parts, LAMBDA p : p # <<>>))

_generate_column_definition(column) ==
    JoinNonEmpty(<< <<" "," "," "," ","BACKTICK">> \o AvoidReserved(_sanitize_identifier(column.name)) \o <<"BACKTICK">>,
                    column.mysql_type,
                    Nullable(column.null_count),
                    CommentClause(column.description) >>)

\* the three ddl_parts joined by "\n"
DdlText(clean_table_name, column_definitions) ==
    Join(<<"\n">>,
         << <<"C","R","E","A","T","E"," ","T","A","B","L","E"," ","BACKTICK">> \o clean_table_name \o <<"BACKTICK"," ","(">>,
            Join(<<",","\n">>, column_definitions),
            <<")"," ","E","N","G","I","N","E","=","I","n","n","o","D","B"," ","D","E","F","A","U","L","T"," ","C","H","A","R","S","E","T","=","u","t","f","8","m","b","4"," ","C","O","L","L","A","T","E","=","u","t","f","8","m","b","4","_","u","n","i","c","o","d","e","_","c","i",";">> >>)

generate_ddl(table_name, columns) ==
    DdlText(_sanitize_identifier(table_name),
            [i \in 1..Len(columns) |-> _generate_column_definition(columns[i])])

(***************************************************************************)
(* services/description_generator.py: DescriptionGenerator, the            *)
(* description provider.                                                   *)
(***************************************************************************)
\* self.max_description_length
max_description_length == 200

\* the batch size of _generate_ai_descriptions for lists of more columns
MaxBatch == 15

\* name.replace('_', ' ')
UnderscoresToSpaces(name) ==
    [i \in 1..Len(name) |-> IF name[i] = "_" THEN " " ELSE name[i]]

\* re.sub(r'([a-z])([A-Z])', r'\1 \2', humanized): a space between a
\* lower-case letter and the upper-case letter that follows it
SplitCamelCase(humanized) ==
    InsertBefore(humanized,
                 {i \in 2..Len(humanized) :
                      humanized[i - 1] \in LowerCh /\ humanized[i] \in UpperCh},
                 " ")

_humanize_name(name) == Strip(StrLower(SplitCamelCase(UnderscoresToSpaces(name))))

\* any(word in name_lower for word in words)
AnyWordIn(name_lower, words) == \E w \in words : Contains(name_lower, w)

\* repr of a float that was rounded to 2 decimals, given in hundredths
FloatRepr(hundredths) ==
    NatToStr(hundredths \div 100) \o <<".">> \o
    (IF hundredths % 10 = 0
     THEN NatToStr((hundredths % 100) \div 10)
     ELSE NatToStr((hundredths % 100) \div 10) \o NatToStr(hundredths % 10))

\* variant: the name/title words are looked for before the identifier words
DescriptionOfKindTitleFirst(col, name_lower, human) ==
    IF Contains(name_lower, <<"n","a","m","e">>) \/ Contains(name_lower, <<"t","i","t","l","e">>)
    THEN <<"N","a","m","e"," ","o","r"," ","t","i","t","l","e"," ","f","i","e","l","d"," ","c","o","n","t","a","i","n","i","n","g"," ","d","e","s","c","r","i","p","t","i","v","e"," ","t","e","x","t">>
    ELSE IF AnyWordIn(name_lower, {<<"i","d">>, <<"k","e","y">>, <<"p","k">>})
    THEN <<"U","n","i","q","u","e"," ","i","d","e","n","t","i","f","i","e","r"," ","f","i","e","l","d"," ","f","o","r"," ">> \o human
    ELSE IF AnyWordIn(name_lower, {<<"d","a","t","e">>, <<"t","i","m","e">>, <<"c","r","e","a","t","e","d">>, <<"u","p","d","a","t","e","d">>, <<"m","o","d","i","f","i","e","d">>})
    THEN <<"T","i","m","e","s","t","a","m","p"," ","f","i","e","l","d"," ","f","o","r"," ">> \o human \o <<" ","e","v","e","n","t","s">>
    ELSE IF AnyWordIn(name_lower, {<<"e","m","a","i","l">>, <<"m","a","i","l">>})
    THEN <<"E","m","a","i","l"," ","a","d","d","r","e","s","s"," ","f","i","e","l","d"," ","w","i","t","h"," ","v","a","l","i","d","a","t","i","o","n"," ","f","o","r","m","a","t"," ","r","e","q","u","i","r","e","m","e","n","t","s">>
    ELSE IF AnyWordIn(name_lower, {<<"p","h","o","n","e">>, <<"t","e","l">>, <<"m","o","b","i","l","e">>})
    THEN <<"P","h","o","n","e"," ","n","u","m","b","e","r"," ","f","i","e","l","d"," ","s","u","p","p","o","r","t","i","n","g"," ","v","a","r","i","o","u","s"," ","i","n","t","e","r","n","a","t","i","o","n","a","l"," ","f","o","r","m","a","t","s">>
    ELSE IF AnyWordIn(name_lower, {<<"u","r","l">>, <<"l","i","n","k">>, <<"w","e","b","s","i","t","e">>})
    THEN <<"U","R","L"," ","f","i","e","l","d"," ","f","o","r"," ","w","e","b"," ","a","d","d","r","e","s","s","e","s"," ","a","n","d"," ","e","x","t","e","r","n","a","l"," ","l","i","n","k","s">>
    ELSE IF AnyWordIn(name_lower, {<<"a","d","d","r","e","s","s">>, <<"a","d","d","r">>, <<"l","o","c","a","t","i","o","n">>})
    THEN <<"A","d","d","r","e","s","s"," ","f","i","e","l","d"," ","s","t","o","r","i","n","g"," ">> \o human \o <<" ","i","n","f","o","r","m","a","t","i","o","n">>
    ELSE IF AnyWordIn(name_lower, {<<"a","m","o","u","n","t">>, <<"p","r","i","c","e">>, <<"c","o","s","t">>, <<"v","a","l","u","e">>, <<"t","o","t","a","l">>, <<"s","u","m">>})
    THEN <<"M","o","n","e","t","a","r","y"," ","v","a","l","u","e"," ","f","i","e","l","d"," ","f","o","r"," ">> \o human \o <<" ","c","a","l","c","u","l","a","t","i","o","n","s">>
    ELSE IF AnyWordIn(name_lower, {<<"c","o","u","n","t">>, <<"n","u","m","b","e","r">>, <<"q","t","y">>, <<"q","u","a","n","t","i","t","y">>})
    THEN <<"N","u","m","e","r","i","c"," ","c","o","u","n","t"," ","f","i","e","l","d"," ","f","o","r"," ">> \o human \o <<" ","t","r","a","c","k","i","n","g">>
    ELSE IF AnyWordIn(name_lower, {<<"s","t","a","t","u","s">>, <<"s","t","a","t","e">>, <<"f","l","a","g">>})
    THEN <<"S","t","a","t","u","s"," ","i","n","d","i","c","a","t","o","r"," ","f","i","e","l","d"," ","f","o","r"," ">> \o human
    ELSE IF AnyWordIn(name_lower, {<<"d","e","s","c","r","i","p","t","i","o","n">>, <<"d","e","s","c">>, <<"c","o","m","m","e","n","t">>, <<"n","o","t","e">>})
    THEN <<"D","e","s","c","r","i","p","t","i","v","e"," ","t","e","x","t"," ","f","i","e","l","d"," ","c","o","n","t","a","i","n","i","n","g"," ">> \o human \o <<" ","d","e","t","a","i","l","s">>
    ELSE IF col.data_type = <<"b","o","o","l","e","a","n">>
    THEN <<"B","o","o","l","e","a","n"," ","f","l","a","g"," ","i","n","d","i","c","a","t","i","n","g"," ">> \o human \o <<" ","s","t","a","t","e">>
    ELSE IF col.data_type \in {<<"d","e","c","i","m","a","l">>, <<"i","n","t">>, <<"b","i","g","i","n","t">>, <<"t","i","n","y","i","n","t">>, <<"s","m","a","l","l","i","n","t">>}
    THEN <<"N","u","m","e","r","i","c"," ","f","i","e","l","d"," ","(">> \o col.mysql_type \o <<")"," ","w","i","t","h"," ">>
         \o NatToStr(col.unique_count) \o <<" ","u","n","i","q","u","e"," ","v","a","l","u","e","s">>
    ELSE IF Contains(col.data_type, <<"s","t","r","i","n","g">>)
    THEN <<"T","e","x","t"," ","f","i","e","l","d"," ","(">> \o col.mysql_type \o <<")"," ","c","o","n","t","a","i","n","i","n","g"," ">> \o human \o <<" ","d","a","t","a">>
    ELSE <<"D","a","t","a"," ","f","i","e","l","d"," ","o","f"," ","t","y","p","e"," ">> \o col.mysql_type \o <<" ","w","i","t","h"," ">>
         \o NatToStr(col.unique_count) \o <<" ","d","i","s","t","i","n","c","t"," ","v","a","l","u","e","s">>

\* the description chosen by the name of the column, or by its type
DescriptionOfKind(col, name_lower, human) ==
    IF AnyWordIn(name_lower, {<<"i","d">>, <<"k","e","y">>, <<"p","k">>})
    THEN <<"U","n","i","q","u","e"," ","i","d","e","n","t","i","f","i","e","r"," ","f","i","e","l","d"," ","f","o","r"," ">> \o human
    ELSE IF Contains(name_lower, <<"n","a","m","e">>) \/ Contains(name_lower, <<"t","i","t","l","e">>)
    THEN <<"N","a","m","e"," ","o","r"," ","t","i","t","l","e"," ","f","i","e","l","d"," ","c","o","n","t","a","i","n","i","n","g"," ","d","e","s","c","r","i","p","t","i","v","e"," ","t","e","x","t">>
    ELSE IF AnyWordIn(name_lower, {<<"d","a","t","e">>, <<"t","i","m","e">>, <<"c","r","e","a","t","e","d">>, <<"u","p","d","a","t","e","d">>, <<"m","o","d","i","f","i","e","d">>})
    THEN <<"T","i","m","e","s","t","a","m","p"," ","f","i","e","l","d"," ","f","o","r"," ">> \o human \o <<" ","e","v","e","n","t","s">>
    ELSE IF AnyWordIn(name_lower, {<<"e","m","a","i","l">>, <<"m","a","i","l">>})
    THEN <<"E","m","a","i","l"," ","a","d","d","r","e","s","s"," ","f","i","e","l","d"," ","w","i","t","h"," ","v","a","l","i","d","a","t","i","o","n"," ","f","o","r","m","a","t"," ","r","e","q","u","i","r","e","m","e","n","t","s">>
    ELSE IF AnyWordIn(name_lower, {<<"p","h","o","n","e">>, <<"t","e","l">>, <<"m","o","b","i","l","e">>})
    THEN <<"P","h","o","n","e"," ","n","u","m","b","e","r"," ","f","i","e","l","d"," ","s","u","p","p","o","r","t","i","n","g"," ","v","a","r","i","o","u","s"," ","i","n","t","e","r","n","a","t","i","o","n","a","l"," ","f","o","r","m","a","t","s">>
    ELSE IF AnyWordIn(name_lower, {<<"u","r","l">>, <<"l","i","n","k">>, <<"w","e","b","s","i","t","e">>})
    THEN <<"U","R","L"," ","f","i","e","l","d"," ","f","o","r"," ","w","e","b"," ","a","d","d","r","e","s","s","e","s"," ","a","n","d"," ","e","x","t","e","r","n","a","l"," ","l","i","n","k","s">>
    ELSE IF AnyWordIn(name_lower, {<<"a","d","d","r","e","s","s">>, <<"a","d","d","r">>, <<"l","o","c","a","t","i","o","n">>})
    THEN <<"A","d","d","r","e","s","s"," ","f","i","e","l","d"," ","s","t","o","r","i","n","g"," ">> \o human \o <<" ","i","n","f","o","r","m","a","t","i","o","n">>
    ELSE IF AnyWordIn(name_lower, {<<"a","m","o","u","n","t">>, <<"p","r","i","c","e">>, <<"c","o","s","t">>, <<"v","a","l","u","e">>, <<"t","o","t","a","l">>, <<"s","u","m">>})
    THEN <<"M","o","n","e","t","a","r","y"," ","v","a","l","u","e"," ","f","i","e","l","d"," ","f","o","r"," ">> \o human \o <<" ","c","a","l","c","u","l","a","t","i","o","n","s">>
    ELSE IF AnyWordIn(name_lower, {<<"c","o","u","n","t">>, <<"n","u","m","b","e","r">>, <<"q","t","y">>, <<"q","u","a","n","t","i","t","y">>})
    THEN <<"N","u","m","e","r","i","c"," ","c","o","u","n","t"," ","f","i","e","l","d"," ","f","o","r"," ">> \o human \o <<" ","t","r","a","c","k","i","n","g">>
    ELSE IF AnyWordIn(name_lower, {<<"s","t","a","t","u","s">>, <<"s","t","a","t","e">>, <<"f","l","a","g">>})
    THEN <<"S","t","a","t","u","s"," ","i","n","d","i","c","a","t","o","r"," ","f","i","e","l","d"," ","f","o","r"," ">> \o human
    ELSE IF AnyWordIn(name_lower, {<<"d","e","s","c","r","i","p","t","i","o","n">>, <<"d","e","s","c">>, <<"c","o","m","m","e","n","t">>, <<"n","o","t","e">>})
    THEN <<"D","e","s","c","r","i","p","t","i","v","e"," ","t","e","x","t"," ","f","i","e","l","d"," ","c","o","n","t","a","i","n","i","n","g"," ">> \o human \o <<" ","d","e","t","a","i","l","s">>
    ELSE IF col.data_type = <<"b","o","o","l","e","a","n">>
    THEN <<"B","o","o","l","e","a","n"," ","f","l","a","g"," ","i","n","d","i","c","a","t","i","n","g"," ">> \o human \o <<" ","s","t","a","t","e">>
    ELSE IF col.data_type \in {<<"d","e","c","i","m","a","l">>, <<"i","n","t">>, <<"b","i","g","i","n","t">>, <<"t","i","n","y","i","n","t">>, <<"s","m","a","l","l","i","n","t">>}
    THEN <<"N","u","m","e","r","i","c"," ","f","i","e","l","d"," ","(">> \o col.mysql_type \o <<")"," ","w","i","t","h"," ">>
         \o NatToStr(col.unique_count) \o <<" ","u","n","i","q","u","e"," ","v","a","l","u","e","s">>
    ELSE IF Contains(col.data_type, <<"s","t","r","i","n","g">>)
    THEN <<"T","e","x","t"," ","f","i","e","l","d"," ","(">> \o col.mysql_type \o <<")"," ","c","o","n","t","a","i","n","i","n","g"," ">> \o human \o <<" ","d","a","t","a">>
    ELSE <<"D","a","t","a"," ","f","i","e","l","d"," ","o","f"," ","t","y","p","e"," ">> \o col.mysql_type \o <<" ","w","i","t","h"," ">>
         \o NatToStr(col.unique_count) \o <<" ","d","i","s","t","i","n","c","t"," ","v","a","l","u","e","s">>

\* the quality indicator appended to a description
QualitySuffix(col) ==
    IF col.null_percentage > 2000
    THEN <<" ","(","H","i","g","h"," ","n","u","l","l"," ","r","a","t","e",":"," ">> \o FloatRepr(col.null_percentage) \o <<"%",")">>
    ELSE IF Len(col.cleaning_recommendations) > 2
    THEN <<" ","(","M","u","l","t","i","p","l","e"," ","d","a","t","a"," ","q","u","a","l","i","t","y"," ","i","s","s","u","e","s"," ","d","e","t","e","c","t","e","d",")">>
    ELSE <<>>

\* variant: the description is returned at its full length
UntruncatedFallback(col) ==
    DescriptionOfKind(col, StrLower(col.name), _humanize_name(col.name))
    \o QualitySuffix(col)

_generate_fallback_description(col) ==
    Prefix(DescriptionOfKind(col, StrLower(col.name), _humanize_name(col.name))
               \o QualitySuffix(col),
           max_description_length)

\* variant: describing a column also clears its findings
DescribedAndCleared(col, description) ==
    [col EXCEPT !.description = description, !.cleaning_recommendations = <<>>]

\* col.description = ...
Described(col, description) == [col EXCEPT !.description = description]

_generate_fallback_descriptions(columns) ==
    [i \in 1..Len(columns) |->
        Described(columns[i], _generate_fallback_description(columns[i]))]

\* variant: the columns are never split
BatchSizeWhole(columns) == Len(columns)

\* batch_size = 15 if len(columns) > 15 else len(columns)
BatchSize(columns) == IF Len(columns) > MaxBatch THEN MaxBatch ELSE Len(columns)

\* What the service made of a request, after _parse_ai_response, is a pair
\* <<kind, entries>>: <<"raised", <<>>>> when the request or the parsing
\* raised, and <<"list", entries>> for a descriptions list, whose entries are
\* pairs <<type, text>>: <<"str", text>>, <<"null", "">> for a JSON null and
\* <<"number", "">> for a JSON number.
ReplyKind(reply) == reply[1]
ReplyEntries(reply) == reply[2]
EntryType(entry) == entry[1]
EntryText(entry) == entry[2]

\* the truth value Python gives an entry: "" and None are falsy
Truthy(entry) ==
    CASE EntryType(entry) = "str" -> EntryText(entry) # <<>>
      [] EntryType(entry) = "null" -> FALSE
      [] EntryType(entry) = "number" -> TRUE

\* descriptions[j][:self.max_description_length] raises for a number
Sliceable(entry) == EntryType(entry) = "str"

\* the apply loop raises when it reaches an entry it uses and cannot slice
ApplyRaises(batch_columns, descriptions) ==
    \E j \in 1..Len(batch_columns) :
        /\ j <= Len(descriptions)
        /\ Truthy(descriptions[j])
        /\ ~Sliceable(descriptions[j])

\* the body of the apply loop for the column at index j of the batch
AppliedDescription(col, j, descriptions) ==
    IF j <= Len(descriptions) /\ Truthy(descriptions[j])
    THEN Prefix(EntryText(descriptions[j]), max_description_length)
    ELSE _generate_fallback_description(col)

\* the batch after the try block of _generate_ai_descriptions
BatchOutcome(batch_columns, reply) ==
    IF ReplyKind(reply) = "raised" \/ ApplyRaises(batch_columns, ReplyEntries(reply))
    THEN _generate_fallback_descriptions(batch_columns)
    ELSE [j \in 1..Len(batch_columns) |->
             Described(batch_columns[j],
                       AppliedDescription(batch_columns[j], j, ReplyEntries(reply)))]

\* columns with columns[i:i + batch_size] replaced by the batch's outcome
WithBatch(columns, i, batch_size, reply) ==
    Prefix(columns, i)
    \o BatchOutcome(Slice(columns, i, i + batch_size), reply)
    \o Suffix(columns, i + batch_size)

(***************************************************************************)
(* The analyze pipeline: CSVParser.parse_csv, handle_api_error and the     *)
(* exceptions of analyze_csv.  An exception is a triple <<class,           *)
(* status_code, message>>, with status_code 0 for a class that has none.   *)
(***************************************************************************)
\* settings.max_file_size
max_file_size == 104857600

ERROR_MESSAGES(key) ==
    CASE key = "csv_parsing_failed" -> <<"C","o","u","l","d"," ","n","o","t"," ","p","a","r","s","e"," ","C","S","V"," ","f","i","l","e"," ","w","i","t","h"," ","a","n","y"," ","c","o","m","m","o","n"," ","s","e","p","a","r","a","t","o","r">>
      [] key = "empty_file" -> <<"U","p","l","o","a","d","e","d"," ","f","i","l","e"," ","i","s"," ","e","m","p","t","y">>
      [] key = "unsupported_format" -> <<"P","l","e","a","s","e"," ","u","p","l","o","a","d"," ","a"," ","C","S","V"," ","f","i","l","e"," ","(",".","c","s","v"," ","e","x","t","e","n","s","i","o","n"," ","r","e","q","u","i","r","e","d",")">>
      [] key = "analysis_failed" -> <<"A","n","a","l","y","s","i","s"," ","f","a","i","l","e","d"," ","d","u","e"," ","t","o"," ","a","n"," ","u","n","e","x","p","e","c","t","e","d"," ","e","r","r","o","r">>
      [] key = "ai_service_unavailable" -> <<"A","I"," ","d","e","s","c","r","i","p","t","i","o","n"," ","s","e","r","v","i","c","e"," ","i","s"," ","t","e","m","p","o","r","a","r","i","l","y"," ","u","n","a","v","a","i","l","a","b","l","e">>

\* the classes of utils/error_handler.py that derive from SchemaSenseError
SchemaSenseErrors ==
    {"error_handler.SchemaSenseError", "error_handler.CSVParsingError",
     "error_handler.AnalysisError"}

\* class CSVParsingError(Exception) of services/csv_parser.py, raised with a message
ParserCSVParsingError(message) == <<"csv_parser.CSVParsingError", 0, message>>

HTTPException(status_code, detail) == <<"HTTPException", status_code, detail>>

ExcClass(e) == e[1]
ExcStatus(e) == e[2]
ExcMessage(e) == e[3]

\* str.endswith
EndsWith(s, p) == Len(p) <= Len(s) /\ SubSeq(s, Len(s) - Len(p) + 1, Len(s)) = p

\* not file.filename or not file.filename.lower().endswith('.csv')
BadFilename(filename) == filename = <<>> \/ ~EndsWith(StrLower(filename), <<".","c","s","v">>)

\* the message of the CSVParsingError of parse_csv for a table that is no table
CouldNotParse ==
    <<"C","o","u","l","d"," ","n","o","t"," ","p","a","r","s","e"," ","C","S","V"," ","f","i","l","e","."," ","P","l","e","a","s","e"," ","e","n","s","u","r","e"," ","y","o","u","r"," ","f","i","l","e",":","\n">> \o
    <<"BULLET"," ","H","a","s"," ","p","r","o","p","e","r"," ","C","S","V"," ","f","o","r","m","a","t","t","i","n","g","\n">> \o
    <<"BULLET"," ","C","o","n","t","a","i","n","s"," ","d","a","t","a"," ","(","n","o","t"," ","j","u","s","t"," ","h","e","a","d","e","r","s",")","\n">> \o
    <<"BULLET"," ","U","s","e","s"," ","s","u","p","p","o","r","t","e","d"," ","s","e","p","a","r","a","t","o","r","s"," ","(","c","o","m","m","a",","," ","s","e","m","i","c","o","l","o","n",","," ","t","a","b",","," ","p","i","p","e",")","\n">> \o
    <<"BULLET"," ","H","a","s"," ","v","a","l","i","d"," ","e","n","c","o","d","i","n","g"," ","(","U","T","F","-","8",","," ","L","a","t","i","n","-","1",","," ","e","t","c",".",")">>

\* f"File too large (max {settings.max_file_size // (1024*1024)}MB)"
FileTooLarge ==
    <<"F","i","l","e"," ","t","o","o"," ","l","a","r","g","e"," ","(","m","a","x"," ">> \o NatToStr(max_file_size \div (1024 * 1024)) \o <<"M","B",")">>

\* A table (DataFrame) is a pair <<columns, rows>>: the column labels and the
\* rows, each row a tuple of as many cells as there are labels.
DfColumns(df) == df[1]
DfRows(df) == df[2]

\* df[col_name] as a Series of cells, for the label at position j
DfColumn(df, j) == [r \in 1..Len(DfRows(df)) |-> DfRows(df)[r][j]]

\* _parse_with_fallbacks: the table of the first attempt that reads more than
\* one column and at least one row, else None; header and rows are what
\* pandas reads in the content
_parse_with_fallbacks(header, rows) ==
    IF Len(header) > 1 /\ Len(rows) > 0 THEN <<header, rows>> ELSE None

\* how often the label occurs among the first n labels
SeenBefore(columns, n, label) ==
    Cardinality({i \in 1..n : columns[i] = label})

\* _handle_duplicate_columns: a label that was seen k times before gets the
\* suffix _k, a label not seen before is kept
_handle_duplicate_columns(columns) ==
    [i \in 1..Len(columns) |->
        IF SeenBefore(columns, i - 1, columns[i]) > 0
        THEN columns[i] \o <<"_">> \o NatToStr(SeenBefore(columns, i - 1, columns[i]))
        ELSE columns[i]]

\* df.columns.astype(str).str.strip()
StripLabels(columns) == [i \in 1..Len(columns) |-> Strip(columns[i])]

\* df.dropna(how='all'): the rows that hold a cell that is not null
DropEmptyRows(rows) ==
    SelectSeq(rows, LAMBDA row : \E j \in 1..Len(row) : row[j] # NULL)

\* _clean_dataframe
_clean_dataframe(df) ==
    <<_handle_duplicate_columns(StripLabels(DfColumns(df))), DropEmptyRows(DfRows(df))>>

\* parsing_info, as <<rows, columns>>
ParsingInfo(df) == <<Len(DfRows(df)), Len(DfColumns(df))>>

\* what parse_csv returns for the table read: <<"return", <<df, parsing_info>>>>
ParsedTable(df) == <<"return", <<_clean_dataframe(df), ParsingInfo(_clean_dataframe(df))>>>>

\* CSVParser.parse_csv on content of content_len bytes in which pandas reads
\* the header and the rows: <<"raise", exception>> or
\* <<"return", <<df, parsing_info>>>>
parse_csv(content_len, header, rows) ==
    IF content_len = 0 THEN <<"raise", ParserCSVParsingError(<<"F","i","l","e"," ","i","s"," ","e","m","p","t","y">>)>>
    ELSE IF content_len > max_file_size THEN <<"raise", ParserCSVParsingError(FileTooLarge)>>
    ELSE IF _parse_with_fallbacks(header, rows) = None
              \/ Len(header) <= 1 \/ Len(rows) = 0
    THEN <<"raise", ParserCSVParsingError(CouldNotParse)>>
    ELSE ParsedTable(_parse_with_fallbacks(header, rows))

\* except CSVParsingError as e, where routes.py imports the name CSVParsingError
\* from utils.error_handler: the clause catches that class only
RouteCatches(e) == ExcClass(e) = "error_handler.CSVParsingError"

\* handle_api_error: the HTTPException it returns
handle_api_error(error) ==
    IF ExcClass(error) \in SchemaSenseErrors
    THEN HTTPException(ExcStatus(error), ExcMessage(error))
    ELSE HTTPException(500, ERROR_MESSAGES("analysis_failed"))

(***************************************************************************)
(* DescriptionGenerator._parse_ai_response, character by character.        *)
(* json.loads is modelled for the texts the parser meets here: an object   *)
(* with the key "descriptions" and an array of strings for its value, or   *)
(* an array of strings, where no string holds a quote or a backslash.  Its *)
(* result is <<"dict", list>>, <<"list", list>> or                         *)
(* <<"JSONDecodeError", <<>>>>.                                            *)
(***************************************************************************)
JSONDecodeError == <<"JSONDecodeError", <<>>>>

\* str.rstrip()
RStrip(s) ==
    LET keep == {i \in 1..Len(s) : s[i] \notin Whitespace}
    IN  IF keep = {} THEN <<>>
        ELSE SubSeq(s, 1, CHOOSE i \in keep : \A j \in keep : j <= i)

\* str.rstrip(c) for a character c
RStripChar(s, c) ==
    LET keep == {i \in 1..Len(s) : s[i] # c}
    IN  IF keep = {} THEN <<>>
        ELSE SubSeq(s, 1, CHOOSE i \in keep : \A j \in keep : j <= i)

\* str.find(p): the 0-based index of the first occurrence of p, or -1
Find(s, p) ==
    LET at == {i \in 0..(Len(s) - Len(p)) : SubSeq(s, i + 1, i + Len(p)) = p}
    IN  IF at = {} THEN -1 ELSE CHOOSE i \in at : \A j \in at : i <= j

\* str.rfind(p): the 0-based index of the last occurrence of p, or -1
RFind(s, p) ==
    LET at == {i \in 0..(Len(s) - Len(p)) : SubSeq(s, i + 1, i + Len(p)) = p}
    IN  IF at = {} THEN -1 ELSE CHOOSE i \in at : \A j \in at : j <= i

\* the elements of a JSON array, given the stripped text between its
\* brackets: a string, then nothing or a comma and more elements
RECURSIVE JsonElements(_)
JsonElements(s) ==
    IF s = <<>> \/ s[1] # "\"" \/ Find(Tail(s), <<"\"">>) = -1 THEN JSONDecodeError
    ELSE LET close == Find(Tail(s), <<"\"">>) + 2
             rest == Strip(SubSeq(s, close + 1, Len(s)))
         IN  IF rest = <<>> THEN <<"list", <<SubSeq(s, 2, close - 1)>>>>
             ELSE IF rest[1] # "," THEN JSONDecodeError
             ELSE IF JsonElements(Strip(Tail(rest))) = JSONDecodeError THEN JSONDecodeError
             ELSE <<"list", <<SubSeq(s, 2, close - 1)>> \o JsonElements(Strip(Tail(rest)))[2]>>

\* a JSON array of strings, given its stripped text
JsonArray(s) ==
    IF Len(s) < 2 \/ s[1] # "[" \/ s[Len(s)] # "]" THEN JSONDecodeError
    ELSE IF Strip(SubSeq(s, 2, Len(s) - 1)) = <<>> THEN <<"list", <<>>>>
    ELSE JsonElements(Strip(SubSeq(s, 2, Len(s) - 1)))

\* what follows the key "descriptions" and the colon, or <<>> if they are not there
AfterKey(inner) ==
    IF ~StartsWith(inner, <<"\"","d","e","s","c","r","i","p","t","i","o","n","s","\"">>) THEN <<>>
    ELSE IF ~StartsWith(Strip(Suffix(inner, 14)), <<":">>) THEN <<>>
    ELSE Strip(Tail(Strip(Suffix(inner, 14))))

\* a JSON object {"descriptions": [...]}, given its stripped text
JsonObject(s) ==
    IF Len(s) < 2 \/ s[1] # "{" \/ s[Len(s)] # "}" THEN JSONDecodeError
    ELSE IF JsonArray(AfterKey(Strip(SubSeq(s, 2, Len(s) - 1)))) = JSONDecodeError
    THEN JSONDecodeError
    ELSE <<"dict", JsonArray(AfterKey(Strip(SubSeq(s, 2, Len(s) - 1))))[2]>>

\* json.loads
json_loads(text) ==
    IF StartsWith(Strip(text), <<"{">>) THEN JsonObject(Strip(text))
    ELSE JsonArray(Strip(text))

\* lines 114-119: an odd number of quotes means an incomplete last string,
\* which is cut off at its quote together with the comma before it
WithoutIncomplete(partial) ==
    IF Occurrences(partial, <<"\"">>) % 2 = 1 /\ RFind(partial, <<"\"">>) > 0
    THEN RStripChar(RStrip(Prefix(partial, RFind(partial, <<"\"">>))), ",")
    ELSE partial

\* lines 110-111: what the content holds after '"descriptions": ['
Partial(response_content) ==
    RStrip(Suffix(response_content,
                  Find(response_content, <<"\"","d","e","s","c","r","i","p","t","i","o","n","s","\"",":"," ","[">>) + 17))

\* line 122: fixed_json
FixedJson(partial) == <<"{","\"","d","e","s","c","r","i","p","t","i","o","n","s","\"",":"," ","[">> \o partial \o <<"]","}">>

\* lines 126-133: the fallback for a simple array, then the ValueError
SimpleArray(response_content) ==
    IF StartsWith(Strip(response_content), <<"[">>)
          /\ json_loads(response_content) # JSONDecodeError
    THEN <<"return", json_loads(response_content)[2]>>
    ELSE <<"raise", "ValueError">>

\* lines 102-133: the handler of the JSONDecodeError of the first json.loads
Salvage(response_content) ==
    IF Contains(response_content, <<"\"","d","e","s","c","r","i","p","t","i","o","n","s","\"",":">>)
          /\ ~EndsWith(Strip(response_content), <<"}">>)
          /\ Contains(response_content, <<"\"","d","e","s","c","r","i","p","t","i","o","n","s","\"",":"," ","[">>)
    THEN IF json_loads(FixedJson(WithoutIncomplete(Partial(response_content)))) = JSONDecodeError
         THEN <<"raise", "ValueError">>
         ELSE <<"return",
                json_loads(FixedJson(WithoutIncomplete(Partial(response_content))))[2]>>
    ELSE SimpleArray(response_content)

\* DescriptionGenerator._parse_ai_response: <<"return", descriptions>> or
\* <<"raise", exception class>>; result.get raises AttributeError on a list
_parse_ai_response(response_content) ==
    IF json_loads(response_content)[1] = "dict"
    THEN <<"return", json_loads(response_content)[2]>>
    ELSE IF json_loads(response_content)[1] = "list"
    THEN <<"raise", "AttributeError">>
    ELSE Salvage(response_content)

\* json.dumps({"descriptions": texts}) for texts without quotes or backslashes
JsonDumps(texts) ==
    <<"{","\"","d","e","s","c","r","i","p","t","i","o","n","s","\"",":"," ","[">>
    \o Join(<<","," ">>, [i \in 1..Len(texts) |-> <<"\"">> \o texts[i] \o <<"\"">>])
    \o <<"]","}">>
VARIABLES
    pc,              \* where the component under analysis stands
    profile,         \* engine: which family of cells the column is read from
    series,          \* engine: the cells of the column read so far
    analysis,        \* engine: the ColumnAnalysis analyze_column returned
    ident,           \* synthesizer: an identifier handed to _sanitize_identifier
    clean,           \* synthesizer: what _sanitize_identifier returned
    table_name,      \* synthesizer: generate_ddl's table_name
    columns,         \* the list of ColumnAnalysis handed on between components
    ddl,             \* synthesizer: the text generate_ddl returned
    client,          \* provider: whether self.client is set
    groq_available,  \* provider: settings.groq_available
    batch_start,     \* provider: the loop index i of _generate_ai_descriptions
    requests,        \* provider: the batches a request was issued for, in order
    replies,         \* provider: what was made of each request's reply, in order
    returned,        \* provider: the list generate_descriptions returned
    given,           \* provider: the list as generate_descriptions was given it
    upload,          \* pipeline: the file uploaded to analyze_csv
    raised,          \* pipeline: the exception that is propagating, if any
    response,        \* pipeline: what analyze_csv answered the caller
    df,              \* pipeline: the table parse_csv returned
    parsing_info,    \* pipeline: the parsing_info parse_csv returned
    sent,            \* response parser: the descriptions the service put in its body
    response_content,\* response parser: the body as it arrived
    parsed,          \* response parser: what _parse_ai_response made of it
    col,             \* rule-based strategy: the column to describe
    desc             \* rule-based strategy: the description it was given

vars == <<pc, profile, series, analysis, ident, clean, table_name, columns, ddl,
          client, groq_available, batch_start, requests, replies, returned, given,
          upload, raised, response, df, parsing_info, sent, response_content, parsed, col, desc>>

engineVars == <<profile, series, analysis>>
sanitizeVars == <<ident, clean>>
ddlVars == <<table_name, ddl>>
providerVars == <<client, groq_available, batch_start, requests, replies, returned, given>>

routeVars == <<upload, raised, response, df, parsing_info>>
parseVars == <<sent, response_content, parsed>>
describeVars == <<col, desc>>
(***************************************************************************)
(* The Schema Engine as a state machine: a column is read cell by cell and *)
(* then analyzed.                                                          *)
(***************************************************************************)
\* longest column read from a profile of many kinds of cells
MaxCells == 3
\* longest column read from a profile of two kinds of cells
MaxMid == 7
\* longest column read from the profile that reaches the 90% boundary
MaxRun == 10
\* longest column read from a profile of long texts
MaxPair == 2

MaxLen(p) ==
    CASE Profiles[p].len = "short" -> MaxCells
      [] Profiles[p].len = "medium" -> MaxMid
      [] Profiles[p].len = "long" -> MaxRun
      [] Profiles[p].len = "pair" -> MaxPair

\* the value of analysis while analyze_column has not returned
NotAnalyzed == [pending |-> TRUE]

EngineIdle == profile = 0 /\ series = <<>> /\ analysis = NotAnalyzed
SanitizeIdle == ident = <<>> /\ clean = <<>>
DdlIdle == table_name = <<>> /\ ddl = <<>>
ProviderIdle ==
    /\ client = FALSE
    /\ groq_available = FALSE
    /\ batch_start = 0
    /\ requests = <<>>
    /\ replies = <<>>
    /\ returned = <<>>
    /\ given = <<>>

RouteIdle ==
    /\ upload = <<>>
    /\ raised = <<>>
    /\ response = <<>>
    /\ df = <<>>
    /\ parsing_info = <<>>

ParseIdle == sent = <<>> /\ response_content = <<>> /\ parsed = <<>>

DescribeIdle == col = NotAnalyzed /\ desc = <<>>

Init ==
    /\ pc = "reading"
    /\ profile \in 1..Len(Profiles)
    /\ series = <<>>
    /\ analysis = NotAnalyzed
    /\ columns = <<>>
    /\ SanitizeIdle /\ DdlIdle /\ ProviderIdle /\ RouteIdle /\ ParseIdle /\ DescribeIdle

\* the table source delivers the next cell of the column
ReadCell(cell) ==
    /\ pc = "reading"
    /\ Len(series) < MaxLen(profile)
    /\ series' = Append(series, cell)
    /\ UNCHANGED <<pc, profile, analysis, columns, sanitizeVars, ddlVars, providerVars, routeVars, parseVars, describeVars>>

\* SchemaInferenceEngine.analyze_column on the column read
AnalyzeColumn ==
    /\ pc = "reading"
    /\ analysis' = analyze_column(Profiles[profile].name, series)
    /\ pc' = "analyzed"
    /\ UNCHANGED <<profile, series, columns, sanitizeVars, ddlVars, providerVars, routeVars, parseVars, describeVars>>

Next ==
    \/ \E cell \in Profiles[profile].cells : ReadCell(cell)
    \/ AnalyzeColumn

Spec == Init /\ [][Next]_vars

(***************************************************************************)
(* Properties of the Schema Engine, stated over the column read and the    *)
(* analysis returned.                                                      *)
(***************************************************************************)
Analyzed == pc = "analyzed"

\* the non-null cells of the column, and the same cells trimmed
NonNullCells == SelectSeq(series, LAMBDA c : c # NULL)
TrimmedCells == [i \in 1..Len(NonNullCells) |-> Strip(NonNullCells[i])]
NullCells == {i \in 1..Len(series) : series[i] = NULL}

\* how many trimmed non-null cells match the k-th pattern
MatchCount(k) ==
    Cardinality({i \in 1..Len(TrimmedCells) :
                    PatternMatches(TYPE_PATTERNS[k], TrimmedCells[i])})

\* strictly more than 80% of the non-null cells match the k-th pattern
Clears(k) == 5 * MatchCount(k) > 4 * Len(NonNullCells)

NoPatternClears == \A k \in 1..Len(TYPE_PATTERNS) : ~Clears(k)

\* the cells that coerce to a number
NumericCells == {i \in 1..Len(NonNullCells) : ParseNumber(NonNullCells[i]) # NaN}

AllNumericIntegral == \A i \in NumericCells : IsIntegral(ParseNumber(NonNullCells[i]))

IntegerTags ==
    {<<"t","i","n","y","i","n","t","_","u","n","s","i","g","n","e","d">>, <<"s","m","a","l","l","i","n","t","_","u","n","s","i","g","n","e","d">>, <<"i","n","t","_","u","n","s","i","g","n","e","d">>, <<"b","i","g","i","n","t","_","u","n","s","i","g","n","e","d">>,
     <<"t","i","n","y","i","n","t">>, <<"s","m","a","l","l","i","n","t">>, <<"i","n","t">>, <<"b","i","g","i","n","t">>}

DecimalTags == {<<"d","e","c","i","m","a","l">>, <<"f","l","o","a","t">>}

StringTags == {<<"s","h","o","r","t","_","s","t","r","i","n","g">>, <<"s","t","r","i","n","g">>, <<"m","e","d","i","u","m","_","s","t","r","i","n","g">>, <<"l","o","n","g","_","s","t","r","i","n","g">>}

Result == <<analysis.data_type, analysis.mysql_type>>

\* the range of values a MySQL column type holds, <<>> for a type that holds
\* no numbers (BOOLEAN is MySQL's TINYINT(1))
RangeOfType(mysql_type) ==
    CASE mysql_type = <<"T","I","N","Y","I","N","T"," ","U","N","S","I","G","N","E","D">> -> <<IntLit(FALSE, <<"0">>), IntLit(FALSE, <<"2","5","5">>)>>
      [] mysql_type = <<"S","M","A","L","L","I","N","T"," ","U","N","S","I","G","N","E","D">> -> <<IntLit(FALSE, <<"0">>), IntLit(FALSE, <<"6","5","5","3","5">>)>>
      [] mysql_type = <<"I","N","T"," ","U","N","S","I","G","N","E","D">> -> <<IntLit(FALSE, <<"0">>), IntLit(FALSE, <<"4","2","9","4","9","6","7","2","9","5">>)>>
      [] mysql_type = <<"B","I","G","I","N","T"," ","U","N","S","I","G","N","E","D">> ->
            <<IntLit(FALSE, <<"0">>), IntLit(FALSE, <<"1","8","4","4","6","7","4","4","0","7","3","7","0","9","5","5","1","6","1","5">>)>>
      [] mysql_type \in {<<"T","I","N","Y","I","N","T">>, <<"B","O","O","L","E","A","N">>} ->
            <<IntLit(TRUE, <<"1","2","8">>), IntLit(FALSE, <<"1","2","7">>)>>
      [] mysql_type = <<"S","M","A","L","L","I","N","T">> -> <<IntLit(TRUE, <<"3","2","7","6","8">>), IntLit(FALSE, <<"3","2","7","6","7">>)>>
      [] mysql_type = <<"I","N","T">> -> <<IntLit(TRUE, <<"2","1","4","7","4","8","3","6","4","8">>), IntLit(FALSE, <<"2","1","4","7","4","8","3","6","4","7">>)>>
      [] mysql_type = <<"B","I","G","I","N","T">> ->
            <<IntLit(TRUE, <<"9","2","2","3","3","7","2","0","3","6","8","5","4","7","7","5","8","0","8">>), IntLit(FALSE, <<"9","2","2","3","3","7","2","0","3","6","8","5","4","7","7","5","8","0","7">>)>>
      [] OTHER -> <<>>

TypeHolds(mysql_type, v) ==
    /\ RangeOfType(mysql_type) # <<>>
    /\ NumLeq(RangeOfType(mysql_type)[1], v)
    /\ NumLeq(v, RangeOfType(mysql_type)[2])

\* the column has a non-null cell and every non-null cell is an integer
IntegerColumn ==
    /\ Len(NonNullCells) > 0
    /\ \A i \in 1..Len(NonNullCells) :
          /\ ParseNumber(NonNullCells[i]) # NaN
          /\ IsIntegral(ParseNumber(NonNullCells[i]))

\* C1: for a column with at least one non-null value whose values are all
\* integers, the range of the returned target type contains every value of
\* the column.
C1_IntegerTypeHoldsValues ==
    (Analyzed /\ IntegerColumn) =>
        \A i \in 1..Len(NonNullCells) :
            TypeHolds(analysis.mysql_type, ParseNumber(NonNullCells[i]))

\* how many trimmed non-null cells match the email pattern
EmailCount == Cardinality({i \in 1..Len(TrimmedCells) : MatchEmail(TrimmedCells[i])})

MostlyEmail == 5 * EmailCount > 4 * Len(NonNullCells)

\* C2: when more than 80% of the non-null, trimmed values match the email
\* pattern, the column is classified email / VARCHAR(100); null cells do not
\* count toward the ratio.
C2_MostlyEmailIsEmail ==
    (Analyzed /\ MostlyEmail) => Result = <<<<"e","m","a","i","l">>, <<"V","A","R","C","H","A","R","(","1","0","0",")">>>>

\* an email column with a null cell and a cell that is no email
C2_Witness ==
    /\ Analyzed
    /\ MostlyEmail
    /\ NullCells # {}
    /\ EmailCount < Len(NonNullCells)
    /\ Result = <<<<"e","m","a","i","l">>, <<"V","A","R","C","H","A","R","(","1","0","0",")">>>>

\* at least 90% of the non-null cells coerce to a number
NinetyPercentNumeric == 10 * Cardinality(NumericCells) >= 9 * Len(NonNullCells)

\* C3: when no pattern clears 80%, a column of which at least 90% (exactly 90%
\* included) of the values coerce to numbers, all of them integral, is given an
\* integer type; with fewer than 90% the column goes to the string-sizing
\* phase.
C3_NumericThreshold ==
    (Analyzed /\ Len(NonNullCells) > 0 /\ NoPatternClears) =>
        /\ (NinetyPercentNumeric /\ AllNumericIntegral) =>
               analysis.data_type \in IntegerTags
        /\ ~NinetyPercentNumeric =>
               /\ analysis.data_type \in StringTags
               /\ Result = _analyze_string_type(TrimmedCells)

\* exactly 9 of 10 values are numeric and the column is an integer column
C3_Witness ==
    /\ Analyzed
    /\ NoPatternClears
    /\ Len(NonNullCells) = 10
    /\ Cardinality(NumericCells) = 9
    /\ analysis.data_type \in IntegerTags

\* the fixed target type of each pattern
FixedTypeOfPattern ==
    <<<<"V","A","R","C","H","A","R","(","1","0","0",")">>, <<"V","A","R","C","H","A","R","(","2","5",")">>, <<"V","A","R","C","H","A","R","(","5","0","0",")">>, <<"D","A","T","E">>, <<"T","I","M","E">>,
      <<"B","O","O","L","E","A","N">>, <<"C","H","A","R","(","3","6",")">>>>

ClearingPatterns == {k \in 1..Len(TYPE_PATTERNS) : Clears(k)}

FirstClearing == CHOOSE k \in ClearingPatterns : \A j \in ClearingPatterns : k <= j

\* C4: the classification is hierarchical.  The first pattern, in the order
\* email, phone, url, date, time, boolean, uuid, that strictly more than 80% of
\* the non-null values match decides the type, whatever the numeric and string
\* phases would say; with no such pattern the numeric phase decides if it
\* matches, and the string phase only if it does not.
C4_Hierarchical ==
    (Analyzed /\ Len(NonNullCells) > 0) =>
        /\ ClearingPatterns # {} =>
               Result = <<TYPE_PATTERNS[FirstClearing], FixedTypeOfPattern[FirstClearing]>>
        /\ (ClearingPatterns = {} /\ NinetyPercentNumeric) =>
               analysis.data_type \in IntegerTags \cup DecimalTags
        /\ (ClearingPatterns = {} /\ ~NinetyPercentNumeric) =>
               analysis.data_type \in StringTags

\* exactly 80% of the values match a pattern, which therefore does not decide
C4_Witness ==
    /\ Analyzed
    /\ Len(NonNullCells) = 5
    /\ \E k \in 1..Len(TYPE_PATTERNS) : MatchCount(k) = 4
    /\ ClearingPatterns = {}
    /\ analysis.data_type \in StringTags

\* the column with cells i and i + 1 exchanged
Swapped(i) ==
    [j \in 1..Len(series) |->
        IF j = i THEN series[i + 1] ELSE IF j = i + 1 THEN series[i] ELSE series[j]]

\* the column without cell i
WithoutCell(i) == SubSeq(series, 1, i - 1) \o SubSeq(series, i + 1, Len(series))

\* C5: the classification depends on the multiset of the non-null values only:
\* exchanging two neighbouring cells, adding a null cell or removing a null
\* cell leaves (logicalType, targetType) unchanged.  Every permutation is a
\* product of exchanges of neighbours and every column within the bounds is
\* reachable, so this covers all reorderings and all placements of nulls.
C5_OrderAndNullsIrrelevant ==
    Analyzed =>
        /\ \A i \in 1..(Len(series) - 1) : _infer_types(Swapped(i)) = Result
        /\ _infer_types(Append(series, NULL)) = Result
        /\ \A i \in NullCells : _infer_types(WithoutCell(i)) = Result

\* a column of different kinds of cells with a null among them
C5_Witness ==
    /\ Analyzed
    /\ NullCells # {}
    /\ Cardinality(Range(NonNullCells)) >= 2
    /\ analysis.data_type \in IntegerTags

\* C8: nullPercentage lies in [0, 100], is 0 for a column without cells, and
\* otherwise is the hundredth of a percent nearest to nullCount / totalCount
\* * 100 (1 null in 5 cells gives 20.0).  The percentage is kept in hundredths.
C8_NullPercentage ==
    Analyzed =>
        /\ analysis.null_percentage \in 0..10000
        /\ Len(series) = 0 => analysis.null_percentage = 0
        /\ analysis.null_count = Cardinality(NullCells)
        /\ analysis.total_count = Len(series)
        /\ 2 * (analysis.null_percentage * Len(series) - 10000 * Cardinality(NullCells))
               <= Len(series)
        /\ 2 * (10000 * Cardinality(NullCells) - analysis.null_percentage * Len(series))
               <= Len(series)

\* one null in five cells: 20.0
C8_Witness ==
    /\ Analyzed
    /\ Len(series) = 5
    /\ Cardinality(NullCells) = 1
    /\ analysis.null_percentage = 2000


\* C18: analyze_column returns for a column of no cells and for a column of
\* null cells only; the classifier's answer is unknown/TEXT in both cases;
\* the column of no cells has no findings, and the column of null cells has
\* exactly one, the null-rate finding.
C18_EmptyAndAllNull ==
    (Analyzed /\ NonNullCells = <<>>) =>
        /\ Result = <<<<"u","n","k","n","o","w","n">>, <<"T","E","X","T">>>>
        /\ analysis.total_count = Len(series)
        /\ Len(series) = 0 => analysis.cleaning_recommendations = <<>>
        /\ Len(series) > 0 =>
               /\ Len(analysis.cleaning_recommendations) = 1
               /\ analysis.cleaning_recommendations[1] \in NullFindings
               /\ analysis.cleaning_recommendations[1] = R_HighNull

\* a column of two null cells was analyzed
C18_Witness ==
    /\ Analyzed
    /\ series = <<NULL, NULL>>
    /\ Result = <<<<"u","n","k","n","o","w","n">>, <<"T","E","X","T">>>>
    /\ analysis.cleaning_recommendations = <<R_HighNull>>

\* the numbers the cells coerce to
NumericValues == [i \in 1..Len(NonNullCells) |-> ParseNumber(NonNullCells[i])]
ValidNumbers == SelectSeq(NumericValues, LAMBDA v : v # NaN)

\* the column reaches _classify_integer_type
IntegerPhase ==
    /\ NoPatternClears
    /\ NumericCells # {}
    /\ NinetyPercentNumeric
    /\ AllNumericIntegral

\* the containers in the order in which they are tried
Containers(lo) ==
    IF NumLeq(IntLit(FALSE, <<"0">>), lo)
    THEN << <<"T","I","N","Y","I","N","T"," ","U","N","S","I","G","N","E","D">>, <<"S","M","A","L","L","I","N","T"," ","U","N","S","I","G","N","E","D">>, <<"I","N","T"," ","U","N","S","I","G","N","E","D">>, <<"B","I","G","I","N","T"," ","U","N","S","I","G","N","E","D">> >>
    ELSE << <<"T","I","N","Y","I","N","T">>, <<"S","M","A","L","L","I","N","T">>, <<"I","N","T">>, <<"B","I","G","I","N","T">> >>

\* the range of the container holds both lo and hi
Fits(mysql_type, lo, hi) == TypeHolds(mysql_type, lo) /\ TypeHolds(mysql_type, hi)

\* the type is the first of the containers that fits
FirstThatFits(mysql_type, lo, hi) ==
    \E k \in 1..Len(Containers(lo)) :
        /\ Containers(lo)[k] = mysql_type
        /\ Fits(mysql_type, lo, hi)
        /\ \A j \in 1..(k - 1) : ~Fits(Containers(lo)[j], lo, hi)

\* the lower-case name of a type, with an underscore for its space
TagOfType(mysql_type) ==
    [i \in 1..Len(mysql_type) |->
        IF mysql_type[i] = " " THEN "_" ELSE ToLowerChar(mysql_type[i])]

\* C19: for a column that reaches _classify_integer_type with minimum lo and
\* maximum hi, the type returned is the first container, unsigned for lo >= 0
\* and signed otherwise, whose range contains lo and hi, and the tag is the
\* lower-case name of that type.
C19_SmallestContainer ==
    (Analyzed /\ IntegerPhase) =>
        /\ FirstThatFits(analysis.mysql_type, NumMin(ValidNumbers), NumMax(ValidNumbers))
        /\ analysis.data_type = TagOfType(analysis.mysql_type)

\* the column reaches _analyze_string_type
StringPhase ==
    /\ NonNullCells # <<>>
    /\ NoPatternClears
    /\ ~NinetyPercentNumeric

\* the greatest length of a trimmed value
MaxTrimmed == MaxOf({Len(TrimmedCells[i]) : i \in 1..Len(TrimmedCells)})

\* the type is VARCHAR(n)
IsVarchar(mysql_type, n) == mysql_type = <<"V","A","R","C","H","A","R","(">> \o NatToStr(n) \o <<")">>

\* C20: in the string-sizing phase, with L the greatest trimmed length:
\* L <= 10 gives short_string and VARCHAR(min(50, L + 10)); 10 < L <= 100
\* gives string and VARCHAR(min(255, L + 20)); 100 < L <= 255 gives
\* VARCHAR(255); 255 < L <= 1000 gives medium_string and TEXT; L > 1000 gives
\* long_string and LONGTEXT; and a VARCHAR(n) chosen has n >= L.
C20_StringBands ==
    (Analyzed /\ StringPhase) =>
        /\ MaxTrimmed <= 10 =>
               /\ analysis.data_type = <<"s","h","o","r","t","_","s","t","r","i","n","g">>
               /\ IsVarchar(analysis.mysql_type, MinOf2(50, MaxTrimmed + 10))
        /\ (10 < MaxTrimmed /\ MaxTrimmed <= 100) =>
               /\ analysis.data_type = <<"s","t","r","i","n","g">>
               /\ IsVarchar(analysis.mysql_type, MinOf2(255, MaxTrimmed + 20))
        /\ (100 < MaxTrimmed /\ MaxTrimmed <= 255) =>
               IsVarchar(analysis.mysql_type, 255)
        /\ (255 < MaxTrimmed /\ MaxTrimmed <= 1000) =>
               Result = <<<<"m","e","d","i","u","m","_","s","t","r","i","n","g">>, <<"T","E","X","T">>>>
        /\ MaxTrimmed > 1000 => Result = <<<<"l","o","n","g","_","s","t","r","i","n","g">>, <<"L","O","N","G","T","E","X","T">>>>
        /\ StartsWith(analysis.mysql_type, <<"V","A","R","C","H","A","R","(">>) =>
               \E n \in MaxTrimmed..255 : IsVarchar(analysis.mysql_type, n)

\* a column whose longest value has exactly 100 characters, beside one of 11,
\* was given VARCHAR(120)
C20_Witness ==
    /\ Analyzed /\ StringPhase
    /\ series = <<C_text11, C_text100>>
    /\ Result = <<<<"s","t","r","i","n","g">>, <<"V","A","R","C","H","A","R","(","1","2","0",")">>>>

\* the positions of the findings list that hold a null-rate finding
NullFindingAt ==
    {i \in 1..Len(analysis.cleaning_recommendations) :
        analysis.cleaning_recommendations[i] \in NullFindings}

\* the null percentage of the column read is above the limit
NullRateAbove(limit) ==
    Len(series) > 0 /\ 100 * Cardinality(NullCells) > limit * Len(series)

\* the first finding of the list is the given one
FirstFinding(finding) ==
    /\ analysis.cleaning_recommendations # <<>>
    /\ analysis.cleaning_recommendations[1] = finding

\* C21: the findings list of an analyzed column holds at most one null-rate
\* finding, and only as its first element; the finding is the one of the
\* tier of the null percentage: above 50 evaluate necessity, else above 20
\* null handling strategy, else above 5 default values, else none.
C21_OneNullFindingFirst ==
    Analyzed =>
        /\ Cardinality(NullFindingAt) <= 1
        /\ NullFindingAt \subseteq {1}
        /\ NullRateAbove(50) => FirstFinding(R_HighNull)
        /\ (NullRateAbove(20) /\ ~NullRateAbove(50)) => FirstFinding(R_SignificantNull)
        /\ (NullRateAbove(5) /\ ~NullRateAbove(20)) => FirstFinding(R_ModerateNull)
        /\ ~NullRateAbove(5) => NullFindingAt = {}

\* a column with one null cell in three and texts that differ in case only:
\* the null-rate finding comes first, the casing finding after it
C21_Witness ==
    /\ Analyzed
    /\ Cardinality(NullCells) = 1 /\ Len(series) = 3
    /\ analysis.cleaning_recommendations = <<R_SignificantNull, R_Casing>>

\* the classifier gave the column a type of the numeric family
NumericFamily == analysis.data_type \in IntegerTags \cup DecimalTags

\* the non-null cells that are numbers all hold the same number
AllValuesEqual ==
    /\ ValidNumbers # <<>>
    /\ \A i \in 1..Len(ValidNumbers) : ValidNumbers[i] = ValidNumbers[1]

\* C22: for a column of a numeric-family type (an integer variant, signed or
\* unsigned, or decimal or float) the numeric findings are run: when all its
\* non-null numeric values are equal, the findings list holds the
\* "all values identical" finding.
C22_NumericFindingsRun ==
    (Analyzed /\ NumericFamily /\ AllValuesEqual) =>
        \E i \in 1..Len(analysis.cleaning_recommendations) :
            analysis.cleaning_recommendations[i] = R_Identical

(***************************************************************************)
(* _sanitize_identifier as a state machine: an identifier is typed, may be *)
(* padded to a length around the 64-character limit, and is sanitized.     *)
(***************************************************************************)
\* longest identifier typed character by character
MaxTyped == 2
\* longest run of one character appended to what was typed
MaxPad == 66

TypedChars == {"a", "Z", "7", "_", "-", " "}
PadChars == {"x", "9", "-"}
PadSizes == (MaxPad - 6)..MaxPad

InitSanitize ==
    /\ pc = "typing"
    /\ ident = <<>>
    /\ clean = <<>>
    /\ columns = <<>>
    /\ EngineIdle /\ DdlIdle /\ ProviderIdle /\ RouteIdle /\ ParseIdle /\ DescribeIdle

TypeChar(c) ==
    /\ pc = "typing"
    /\ Len(ident) < MaxTyped
    /\ ident' = Append(ident, c)
    /\ UNCHANGED <<pc, clean, columns, engineVars, ddlVars, providerVars, routeVars, parseVars, describeVars>>

PadTo(c, n) ==
    /\ pc = "typing"
    /\ ident' = ident \o Repeat(c, n)
    /\ pc' = "padded"
    /\ UNCHANGED <<clean, columns, engineVars, ddlVars, providerVars, routeVars, parseVars, describeVars>>

\* DDLGenerator._sanitize_identifier on the identifier
Sanitize ==
    /\ pc \in {"typing", "padded"}
    /\ clean' = _sanitize_identifier(ident)
    /\ pc' = "sanitized"
    /\ UNCHANGED <<ident, columns, engineVars, ddlVars, providerVars, routeVars, parseVars, describeVars>>

NextSanitize ==
    \/ \E c \in TypedChars : TypeChar(c)
    \/ \E c \in PadChars, n \in PadSizes : PadTo(c, n)
    \/ Sanitize

SpecSanitize == InitSanitize /\ [][NextSanitize]_vars

\* C6: sanitizing is idempotent: sanitizing the identifier _sanitize_identifier
\* returned (for an empty name, a name that starts with a digit, a name longer
\* than 64 characters, or any other) returns it unchanged.
C6_SanitizeIdempotent ==
    pc = "sanitized" => _sanitize_identifier(clean) = clean

\* a name of more than 64 characters that starts with a digit was sanitized
C6_Witness ==
    /\ pc = "sanitized"
    /\ Len(ident) > 64
    /\ ident[1] \in Digit
    /\ clean # ident
    /\ Len(clean) = 64

Sanitized == pc = "sanitized"

\* the identifier with each character outside [A-Za-z0-9_] replaced by "_"
\* and, if that starts with a digit, with "col_" put before it
ReplacedAndPrefixed ==
    LET replaced == [i \in 1..Len(ident) |->
                        IF ident[i] \in Letter \cup Digit \cup {"_"} THEN ident[i] ELSE "_"]
    IN  IF replaced # <<>> /\ replaced[1] \in Digit THEN <<"c","o","l","_">> \o replaced
        ELSE replaced

\* C27: for every input the result of _sanitize_identifier is not empty,
\* consists of characters of [A-Za-z0-9_] only, does not start with a digit
\* and has at most 64 characters; an input that is longer than 64 characters
\* after replacement and prefixing becomes its first 61 characters followed
\* by "_tr".
C27_SanitizedShape ==
    Sanitized =>
        /\ clean # <<>>
        /\ \A i \in 1..Len(clean) : clean[i] \in Letter \cup Digit \cup {"_"}
        /\ clean[1] \notin Digit
        /\ Len(clean) <= 64
        /\ Len(ReplacedAndPrefixed) > 64 =>
               clean = SubSeq(ReplacedAndPrefixed, 1, 61) \o <<"_","t","r">>

\* an identifier of 62 characters that starts with a digit and holds a
\* hyphen: 66 characters after replacement and prefixing, so it was cut
C27_Witness ==
    /\ Sanitized
    /\ Len(ident) = 62
    /\ ident[1] = "7"
    /\ ident[2] = "-"
    /\ Len(clean) = 64
    /\ SubSeq(clean, 1, 6) = <<"c","o","l","_","7","_">>
    /\ SubSeq(clean, 62, 64) = <<"_","t","r">>

(***************************************************************************)
(* generate_ddl as a state machine: analyzed columns are collected for a   *)
(* table and the CREATE TABLE statement is generated.                      *)
(***************************************************************************)
\* most columns of a table
MaxCols == 2

TableNames == { <<"u","s","e","r","s">>, <<"s","e","l","e","c","t">>, <<"1","s","t">>, <<"m","y"," ","t","a","b","l","e">>, <<>> }

\* how many analyzed columns there are to choose from
DdlColumnKinds == 1..9

\* the k-th of them, as analyze_column returns it, with the description the
\* provider may have left in it
DdlColumn(k) ==
    CASE k = 1 -> analyze_column(<<"i","d">>, <<C_int, C_int300>>)
      [] k = 2 -> Described(analyze_column(<<"u","s","e","r"," ","n","a","m","e">>, <<C_text, NULL>>),
                            <<"N","a","m","e"," ","o","r"," ","t","i","t","l","e"," ","f","i","e","l","d"," ","c","o","n","t","a","i","n","i","n","g"," ","d","e","s","c","r","i","p","t","i","v","e"," ","t","e","x","t">>)
      [] k = 3 -> analyze_column(<<"u","s","e","r","_","n","a","m","e">>, <<C_upper>>)
      [] k = 4 -> Described(analyze_column(<<"s","e","l","e","c","t">>, <<C_negative>>),
                            <<"t","h","e"," ","u","s","e","r","'","s"," ","c","h","o","i","c","e">>)
      [] k = 5 -> analyze_column(<<"O","r","d","e","r">>, <<C_decimal, NULL>>)
      [] k = 6 -> analyze_column(<<"2","n","d">>, <<C_email>>)
      [] k = 7 -> Described(analyze_column(<<"c","r","e","a","t","e","d","-","a","t">>, <<C_time>>), <<"T","i","m","e","s","t","a","m","p">>)
      [] k = 8 -> analyze_column(Repeat("n", 70), <<C_text>>)
      [] k = 9 -> Described(analyze_column(<<"n","o","t","e">>, <<C_text>>),
                            Repeat("d", 99) \o <<"'","s"," ","r","e","m","a","r","k">>)

InitDdl ==
    /\ pc = "collecting"
    /\ table_name \in TableNames
    /\ columns = <<>>
    /\ ddl = <<>>
    /\ EngineIdle /\ SanitizeIdle /\ ProviderIdle /\ RouteIdle /\ ParseIdle /\ DescribeIdle

\* the k-th analyzed column joins the list handed to generate_ddl; the parser
\* hands on no two columns of the same name
AddColumn(k) ==
    /\ pc = "collecting"
    /\ Len(columns) < MaxCols
    /\ \A i \in 1..Len(columns) : columns[i].name # DdlColumn(k).name
    /\ columns' = Append(columns, DdlColumn(k))
    /\ UNCHANGED <<pc, table_name, ddl, engineVars, sanitizeVars, providerVars, routeVars, parseVars, describeVars>>

\* DDLGenerator.generate_ddl(table_name, columns)
GenerateDdl ==
    /\ pc = "collecting"
    /\ ddl' = generate_ddl(table_name, columns)
    /\ pc' = "generated"
    /\ UNCHANGED <<table_name, columns, engineVars, sanitizeVars, providerVars, routeVars, parseVars, describeVars>>

NextDdl ==
    \/ \E k \in DdlColumnKinds : AddColumn(k)
    \/ GenerateDdl

SpecDdl == InitDdl /\ [][NextDdl]_vars

Generated == pc = "generated"

\* the lines of a text
RECURSIVE Lines(_)
Lines(text) ==
    IF \A i \in 1..Len(text) : text[i] # "\n" THEN <<text>>
    ELSE LET nl == CHOOSE i \in 1..Len(text) :
                       text[i] = "\n" /\ \A j \in 1..(i - 1) : text[j] # "\n"
         IN  <<SubSeq(text, 1, nl - 1)>> \o Lines(SubSeq(text, nl + 1, Len(text)))

\* the positions of the backticks of a line
Ticks(line) == {i \in 1..Len(line) : line[i] = "BACKTICK"}

\* the identifier a line quotes first: the text between its first two backticks
QuotedIdentifier(line) ==
    LET first == CHOOSE i \in Ticks(line) : \A j \in Ticks(line) : i <= j
        second == CHOOSE i \in Ticks(line) \ {first} :
                      \A j \in Ticks(line) \ {first} : i <= j
    IN  SubSeq(line, first + 1, second - 1)

\* the line of the DDL that defines column i
DefinitionLine(i) == Lines(ddl)[i + 1]

\* the name of a column as the DDL is to quote it
Quoted(column) ==
    <<"BACKTICK">> \o AvoidReserved(_sanitize_identifier(column.name)) \o <<"BACKTICK">>

\* 0-based positions of the DDL at which the text p occurs
PositionsOf(p) == {i \in 0..(Len(ddl) - Len(p)) : SubSeq(ddl, i + 1, i + Len(p)) = p}

\* C7: every column's sanitized name occurs backtick-quoted exactly once in the
\* DDL, and the quoted names occur in the order of the columns.
C7_EachNameOnceInOrder ==
    Generated =>
        /\ \A i \in 1..Len(columns) : Cardinality(PositionsOf(Quoted(columns[i]))) = 1
        /\ \A i, j \in 1..Len(columns) :
               i < j =>
                   \A p \in PositionsOf(Quoted(columns[i])) :
                       \A q \in PositionsOf(Quoted(columns[j])) : p < q

\* C10: a column whose sanitized name is a reserved word, whatever its case, is
\* emitted with "_col" appended and any other column under its sanitized name,
\* so that no emitted column identifier is a reserved word; the table name is
\* emitted sanitized and nothing else, a reserved word included.
C10_ReservedWords ==
    Generated =>
        /\ \A i \in 1..Len(columns) :
               LET sanitized == _sanitize_identifier(columns[i].name)
                   emitted == QuotedIdentifier(DefinitionLine(i))
               IN  /\ StrLower(sanitized) \in reserved_words
                          => emitted = sanitized \o <<"_","c","o","l">>
                   /\ StrLower(sanitized) \notin reserved_words
                          => emitted = sanitized
                   /\ StrLower(emitted) \notin reserved_words
        /\ QuotedIdentifier(Lines(ddl)[1]) = _sanitize_identifier(table_name)

\* the table "select" was emitted as `select`, with a column named by a
\* reserved word in upper case and one that is not reserved
C10_Witness ==
    /\ Generated
    /\ table_name = <<"s","e","l","e","c","t">>
    /\ QuotedIdentifier(Lines(ddl)[1]) = <<"s","e","l","e","c","t">>
    /\ Len(columns) = 2
    /\ columns[1].name = <<"O","r","d","e","r">>
    /\ QuotedIdentifier(DefinitionLine(1)) = <<"O","r","d","e","r","_","c","o","l">>
    /\ columns[2].name = <<"i","d">>
    /\ QuotedIdentifier(DefinitionLine(2)) = <<"i","d">>

\* the position at which the COMMENT clause of a line starts, 0 if it has none
CommentStart(line) ==
    LET starts == {i \in 1..(Len(line) - 8) : SubSeq(line, i, i + 8) = <<"C","O","M","M","E","N","T"," ","'">>}
    IN  IF starts = {} THEN 0 ELSE CHOOSE i \in starts : \A j \in starts : i <= j

\* a definition line without the comma that separates it from the next one
WithoutComma(i) ==
    IF i < Len(columns) THEN Prefix(DefinitionLine(i), Len(DefinitionLine(i)) - 1)
    ELSE DefinitionLine(i)

\* the text of the comment literal of column i: what stands between the quote
\* that opens the literal and the quote that ends the line
CommentText(i) ==
    SubSeq(WithoutComma(i), CommentStart(WithoutComma(i)) + 9, Len(WithoutComma(i)) - 1)

\* how many backslashes a text ends with
TrailingBackslashes(text) ==
    Len(text) - (IF \A j \in 1..Len(text) : text[j] = "\\" THEN 0
                 ELSE CHOOSE j \in 1..Len(text) :
                          /\ text[j] # "\\"
                          /\ \A k \in (j + 1)..Len(text) : text[k] = "\\")

\* no quote of the text stands unescaped and the text leaves no backslash to
\* escape the quote that follows it
InjectionSafe(text) ==
    /\ \A p \in 1..Len(text) : text[p] = "'" => (p > 1 /\ text[p - 1] = "\\")
    /\ TrailingBackslashes(text) % 2 = 0

\* C11: for every column with a non-empty description the comment text is at
\* most 100 characters, every single quote in it is preceded by a backslash,
\* and the text does not escape the quote that closes the literal, also when
\* the truncation to 100 characters falls inside an escaped quote.
C11_CommentInjectionSafe ==
    Generated =>
        \A i \in 1..Len(columns) :
            columns[i].description # <<>> =>
                /\ CommentStart(WithoutComma(i)) > 0
                /\ Len(CommentText(i)) <= 100
                /\ InjectionSafe(CommentText(i))

\* the definition of column i up to its COMMENT clause
BeforeComment(i) ==
    IF CommentStart(WithoutComma(i)) = 0 THEN WithoutComma(i)
    ELSE Prefix(WithoutComma(i), CommentStart(WithoutComma(i)) - 2)

\* C25: in the DDL the definition of a column carries NULL if and only if the
\* null_count of the column is greater than 0, and NOT NULL otherwise; one
\* nullability constraint and no second one stands in the definition.
C25_Nullability ==
    Generated =>
        \A i \in 1..Len(columns) :
            /\ Occurrences(BeforeComment(i), <<"N","U","L","L">>) = 1
            /\ columns[i].null_count > 0 <=>
                   EndsWith(BeforeComment(i), columns[i].mysql_type \o <<" ","N","U","L","L">>)
            /\ columns[i].null_count = 0 <=>
                   EndsWith(BeforeComment(i), columns[i].mysql_type \o <<" ","N","O","T"," ","N","U","L","L">>)

\* a table of a column with a null cell, emitted as NULL and with a comment,
\* and of a column without null cells, emitted as NOT NULL
C25_Witness ==
    /\ Generated
    /\ Len(columns) = 2
    /\ columns[1].null_count = 1
    /\ columns[1].description # <<>>
    /\ EndsWith(BeforeComment(1), <<"V","A","R","C","H","A","R","(","1","3",")"," ","N","U","L","L">>)
    /\ columns[2].null_count = 0
    /\ EndsWith(BeforeComment(2), <<" ","N","O","T"," ","N","U","L","L">>)

(***************************************************************************)
(* generate_descriptions as a state machine: the strategy is chosen, and   *)
(* the remote strategy issues one request per batch of columns.            *)
(***************************************************************************)
\* longest descriptions list a reply carries
MaxReply == 2
\* length of the longest description a reply carries
LongReply == 205

\* how many analyzed columns there are to choose from
ProviderColumnKinds == 1..8

\* the k-th of them, as analyze_column returns it
ProviderColumn(k) ==
    CASE k = 1 -> analyze_column(<<"c","u","s","t","o","m","e","r","_","i","d">>, <<C_int, C_int300>>)
      [] k = 2 -> analyze_column(<<"u","s","e","r","N","a","m","e">>, <<C_text>>)
      [] k = 3 -> analyze_column(<<"c","r","e","a","t","e","d","_","a","t">>, <<C_time, NULL>>)
      [] k = 4 -> analyze_column(<<"a","c","t","i","v","e">>, <<C_true>>)
      [] k = 5 -> analyze_column(<<"a","g","e">>, <<C_negative, C_int>>)
      [] k = 6 -> analyze_column(<<"m","i","s","c">>, <<C_sentence, NULL>>)
      [] k = 7 -> analyze_column(<<"c","o","n","t","a","c","t">>, <<C_email>>)
      [] k = 8 -> analyze_column(<<"i","d","_">> \o Repeat("x", max_description_length),
                                 <<C_int>>)

\* the column lists generate_descriptions is called with: n columns, taken
\* in cyclic order from the one after offset
ColumnLists ==
    ({0, 1, 2, 3} \X (0..(Cardinality(ProviderColumnKinds) - 1)))
    \cup {<<MaxBatch, 0>>, <<MaxBatch + 1, 0>>}

ColumnList(n, offset) ==
    [i \in 1..n |-> ProviderColumn(((i + offset - 1) % Cardinality(ProviderColumnKinds)) + 1)]

Entries ==
    { <<"str", <<"C","u","s","t","o","m","e","r"," ","r","e","f","e","r","e","n","c","e">>>>,
      <<"str", <<>>>>,
      <<"str", Repeat("d", LongReply)>>,
      <<"null", <<>>>>,
      <<"number", <<>>>> }

EntryLists == UNION {[1..n -> Entries] : n \in 0..MaxReply}

Replies == {<<"raised", <<>>>>} \cup {<<"list", e>> : e \in EntryLists}

InitProvider ==
    /\ pc = "loading"
    /\ columns = <<>>
    /\ client \in BOOLEAN
    /\ groq_available \in BOOLEAN
    /\ batch_start = 0
    /\ requests = <<>>
    /\ replies = <<>>
    /\ returned = <<>>
    /\ given = <<>>
    /\ EngineIdle /\ SanitizeIdle /\ DdlIdle /\ RouteIdle /\ ParseIdle /\ DescribeIdle

\* the analyses of the table's columns arrive
LoadColumns(n, offset) ==
    /\ pc = "loading"
    /\ columns' = ColumnList(n, offset)
    /\ given' = columns'
    /\ pc' = "called"
    /\ UNCHANGED <<client, groq_available, batch_start, requests, replies, returned,
                   engineVars, sanitizeVars, ddlVars, routeVars, parseVars, describeVars>>

\* variant: the credential is not looked at
generate_descriptionsAnyCredential ==
    /\ pc = "called"
    /\ IF ~client \/ Len(columns) = 0
       THEN /\ columns' = _generate_fallback_descriptions(columns)
            /\ returned' = columns'
            /\ pc' = "returned"
       ELSE /\ pc' = "batching"
            /\ UNCHANGED <<columns, returned>>
    /\ UNCHANGED <<client, groq_available, batch_start, requests, replies, given,
                   engineVars, sanitizeVars, ddlVars, routeVars, parseVars, describeVars>>

\* DescriptionGenerator.generate_descriptions up to its first request: the
\* rule-based strategy without a client or a credential, and also when
\* range(0, 0, 0) raises for an empty list; else the loop over the batches
generate_descriptions ==
    /\ pc = "called"
    /\ IF ~client \/ ~groq_available \/ Len(columns) = 0
       THEN /\ columns' = _generate_fallback_descriptions(columns)
            /\ returned' = columns'
            /\ pc' = "returned"
       ELSE /\ pc' = "batching"
            /\ UNCHANGED <<columns, returned>>
    /\ UNCHANGED <<client, groq_available, batch_start, requests, replies, given,
                   engineVars, sanitizeVars, ddlVars, routeVars, parseVars, describeVars>>

\* one iteration of the loop of _generate_ai_descriptions: the request for
\* the batch at batch_start, and what is made of its reply
RequestBatch(reply) ==
    /\ pc = "batching"
    /\ requests' = Append(requests,
                           <<batch_start,
                             Len(Slice(columns, batch_start, batch_start + BatchSize(columns)))>>)
    /\ replies' = Append(replies, reply)
    /\ columns' = WithBatch(columns, batch_start, BatchSize(columns), reply)
    /\ batch_start' = batch_start + BatchSize(columns)
    /\ IF batch_start' < Len(columns)
       THEN UNCHANGED <<pc, returned>>
       ELSE pc' = "returned" /\ returned' = columns'
    /\ UNCHANGED <<client, groq_available, given, engineVars, sanitizeVars, ddlVars,
                   routeVars, parseVars, describeVars>>

NextProvider ==
    \/ \E l \in ColumnLists : LoadColumns(l[1], l[2])
    \/ generate_descriptions
    \/ \E reply \in Replies : RequestBatch(reply)

SpecProvider == InitProvider /\ [][NextProvider]_vars

Returned == pc = "returned"

\* C9: every column generate_descriptions returns has a description that is
\* not empty and has at most 200 characters, whichever strategy produced it.
C9_DescriptionBounds ==
    Returned =>
        \A i \in 1..Len(returned) :
            /\ returned[i].description # <<>>
            /\ Len(returned[i].description) <= 200

\* two batches were requested; one column carries a remote description cut to
\* 200 characters, one a rule-based description cut to 200 characters, and
\* one a rule-based description because its batch failed
C9_Witness ==
    /\ Returned
    /\ Len(requests) = 2
    /\ Len(returned[1].description) = 200
    /\ returned[1].description[1] = "d"
    /\ returned[2].description = _generate_fallback_description(returned[2])
    /\ Len(returned[8].description) = 200
    /\ returned[8].description = _generate_fallback_description(returned[8])
    /\ returned[16].description = _generate_fallback_description(returned[16])

\* the position in returned of column j of the batch of request r
ColumnOf(r, j) == requests[r][1] + j

\* the columns of the batch of request r, numbered from 1
BatchColumns(r) == 1..requests[r][2]

\* request r was answered with a descriptions list
Answered(r) == ReplyKind(replies[r]) = "list"

\* the list has an entry for column j of the batch and it is a non-empty string
HasText(r, j) ==
    /\ j <= Len(ReplyEntries(replies[r]))
    /\ EntryType(ReplyEntries(replies[r])[j]) = "str"
    /\ EntryText(ReplyEntries(replies[r])[j]) # <<>>

\* the list has no entry for column j of the batch, or an empty one
NoText(r, j) ==
    \/ j > Len(ReplyEntries(replies[r]))
    \/ EntryType(ReplyEntries(replies[r])[j]) = "null"
    \/ ReplyEntries(replies[r])[j] = <<"str", <<>>>>

\* C13: in a batch that was answered with a descriptions list, a column whose
\* entry is a non-empty text carries that text cut to 200 characters, and a
\* column whose entry is missing or empty carries its rule-based description,
\* whatever the other entries of the list are.
C13_FallbackPerColumn ==
    Returned =>
        \A r \in 1..Len(requests) :
            Answered(r) =>
                \A j \in BatchColumns(r) :
                    /\ HasText(r, j) =>
                           returned[ColumnOf(r, j)].description =
                               Prefix(EntryText(ReplyEntries(replies[r])[j]), max_description_length)
                    /\ NoText(r, j) =>
                           returned[ColumnOf(r, j)].description =
                               _generate_fallback_description(returned[ColumnOf(r, j)])

\* the remote strategy was taken for at least one column
Remote == client /\ groq_available /\ Len(returned) >= 1

\* the descriptions list of request r has only strings and nulls for entries
PlainList(r) ==
    /\ Answered(r)
    /\ \A j \in 1..Len(ReplyEntries(replies[r])) :
           EntryType(ReplyEntries(replies[r])[j]) \in {"str", "null"}

\* what column j of the batch of request r carries when returned
Carried(r, j) == returned[ColumnOf(r, j)].description

\* C14: with a client and n >= 1 columns, the batches are consecutive, of
\* min(15, remaining) columns each, and cover every column once; each batch
\* has exactly one request; the columns of a batch whose request failed carry
\* rule-based descriptions, and the columns of every other batch carry what
\* their own reply gives them.
C14_OneRequestPerBatch ==
    (Returned /\ Remote) =>
        /\ Len(requests) = (Len(returned) + MaxBatch - 1) \div MaxBatch
        /\ \A r \in 1..Len(requests) :
               /\ requests[r][1] = MaxBatch * (r - 1)
               /\ requests[r][2] = MinOf2(MaxBatch, Len(returned) - MaxBatch * (r - 1))
               /\ ~Answered(r) =>
                      \A j \in BatchColumns(r) :
                          Carried(r, j) = _generate_fallback_description(returned[ColumnOf(r, j)])
               /\ PlainList(r) =>
                      \A j \in BatchColumns(r) :
                          /\ HasText(r, j) =>
                                 Carried(r, j) = Prefix(EntryText(ReplyEntries(replies[r])[j]),
                                                        max_description_length)
                          /\ NoText(r, j) =>
                                 Carried(r, j) = _generate_fallback_description(returned[ColumnOf(r, j)])

\* sixteen columns went out as a batch of fifteen, whose request failed, and
\* a batch of one, which carries the text of its reply
C14_Witness ==
    /\ Returned /\ Remote
    /\ requests = <<<<0, MaxBatch>>, <<MaxBatch, 1>>>>
    /\ ~Answered(1)
    /\ Carried(1, 1) = _generate_fallback_description(returned[1])
    /\ PlainList(2) /\ HasText(2, 1)
    /\ Carried(2, 1) = <<"C","u","s","t","o","m","e","r"," ","r","e","f","e","r","e","n","c","e">>

\* every column returned carries its rule-based description
AllRuleBased ==
    \A i \in 1..Len(returned) :
        returned[i].description = _generate_fallback_description(returned[i])

\* C16: a request is made only with a client and a credential; without one of
\* them no request is made and every column returned carries its rule-based
\* description; and when the remote path is left by an exception, as it is
\* for an empty column list, generate_descriptions returns the whole set with
\* rule-based descriptions and no request was made.
C16_SelectionPolicy ==
    /\ requests # <<>> => (client /\ groq_available)
    /\ Returned =>
           /\ ~(client /\ groq_available) => (requests = <<>> /\ AllRuleBased)
           /\ Len(returned) = Len(columns)
           /\ Len(columns) = 0 => (requests = <<>> /\ returned = <<>>)
           /\ (client /\ groq_available /\ Len(columns) > 0) => requests # <<>>

\* a client without a credential: three columns came back rule-based and no
\* request was made
C16_Witness ==
    /\ Returned
    /\ client /\ ~groq_available
    /\ Len(returned) = 3
    /\ requests = <<>>
    /\ AllRuleBased

\* C26: generate_descriptions changes nothing but the description field: the
\* list it returns has the length and the order of the list it was given,
\* and each column's name, types, sample values, counts, null percentage and
\* cleaning recommendations are as they were, with either strategy and with
\* or without failing requests.
C26_OnlyDescriptionChanges ==
    Returned =>
        /\ Len(returned) = Len(given)
        /\ \A i \in 1..Len(returned) :
               [returned[i] EXCEPT !.description = given[i].description] = given[i]

\* sixteen columns went through two requests, the first answered with a
\* descriptions list and the second failing; columns with findings were
\* described remotely and by rule
C26_Witness ==
    /\ Returned
    /\ Len(given) = MaxBatch + 1
    /\ Len(returned) = MaxBatch + 1
    /\ Len(replies) = 2
    /\ ReplyKind(replies[1]) = "list"
    /\ ReplyKind(replies[2]) = "raised"
    /\ returned[1].description = <<"C","u","s","t","o","m","e","r"," ","r","e","f","e","r","e","n","c","e">>
    /\ given[3].cleaning_recommendations # <<>>
    /\ returned[3].description = _generate_fallback_description(given[3])
    /\ returned[MaxBatch + 1].description # <<>>

(***************************************************************************)
(* analyze_csv as a state machine: the upload is checked, parsed, analyzed *)
(* and answered; an exception propagates to the handlers of the outer try. *)
(***************************************************************************)
\* most columns pandas reads in an upload
MaxTable == 3
\* most rows pandas reads in an upload
MaxRows == 2

Filenames == { <<>>, <<"d","a","t","a",".","c","s","v">>, <<"D","A","T","A",".","C","S","V">>, <<"d","a","t","a",".","t","x","t">> }
ContentLens == {0, 1, max_file_size, max_file_size + 1}

\* the labels pandas reads in a header line: it tells equal labels apart
\* itself, so the labels of a header differ, if only by a blank
Labels == { <<"i","d">>, <<" ","i","d">>, <<"i","d","_","1">>, <<"q","t","y">> }
Headers ==
    {h \in UNION {[1..n -> Labels] : n \in 0..MaxTable} :
        \A i, j \in 1..Len(h) : i # j => h[i] # h[j]}

\* the rows pandas reads: a row of empty cells, a row of numbers, and a row
\* whose first cell is empty
RowKinds == {"empty", "full", "partial"}
RowOfKind(kind, width) ==
    [j \in 1..width |->
        IF kind = "empty" \/ (kind = "partial" /\ j = 1) THEN NULL ELSE C_int]
RowKindLists == UNION {[1..n -> RowKinds] : n \in 0..MaxRows}

\* an upload is <<filename, len(content), header read, kinds of the rows read>>
Uploads == Filenames \X ContentLens \X Headers \X RowKindLists

filename == upload[1]
content_len == upload[2]
header == upload[3]
rows == [r \in 1..Len(upload[4]) |-> RowOfKind(upload[4][r], Len(upload[3]))]
n_columns == Len(header)
n_rows == Len(rows)

InitRoute ==
    /\ pc = "received"
    /\ upload \in Uploads
    /\ table_name = <<"m","y","_","t","a","b","l","e">>
    /\ client \in BOOLEAN
    /\ groq_available = client
    /\ raised = <<>>
    /\ response = <<>>
    /\ df = <<>>
    /\ parsing_info = <<>>
    /\ columns = <<>>
    /\ ddl = <<>>
    /\ batch_start = 0 /\ requests = <<>> /\ replies = <<>>
    /\ returned = <<>> /\ given = <<>>
    /\ EngineIdle /\ SanitizeIdle /\ ParseIdle /\ DescribeIdle

\* analyze_csv, lines 37-49: the checks of the file name and of the content
CheckUpload ==
    /\ pc = "received"
    /\ IF BadFilename(filename)
       THEN /\ raised' = HTTPException(400, ERROR_MESSAGES("unsupported_format"))
            /\ pc' = "raising"
       ELSE IF content_len = 0
       THEN /\ raised' = HTTPException(400, ERROR_MESSAGES("empty_file"))
            /\ pc' = "raising"
       ELSE /\ pc' = "parsing"
            /\ UNCHANGED raised
    /\ UNCHANGED <<upload, response, df, parsing_info, columns, engineVars, sanitizeVars,
                   ddlVars, providerVars, parseVars, describeVars>>

\* analyze_csv, lines 53-56: parse_csv inside its own try
ParseCsv ==
    /\ pc = "parsing"
    /\ IF parse_csv(content_len, header, rows)[1] = "raise"
       THEN /\ raised' = (IF RouteCatches(parse_csv(content_len, header, rows)[2])
                          THEN HTTPException(400, ExcMessage(parse_csv(content_len, header, rows)[2]))
                          ELSE parse_csv(content_len, header, rows)[2])
            /\ pc' = "raising"
            /\ UNCHANGED <<df, parsing_info>>
       ELSE /\ df' = parse_csv(content_len, header, rows)[2][1]
            /\ parsing_info' = parse_csv(content_len, header, rows)[2][2]
            /\ pc' = "analyzing"
            /\ UNCHANGED raised
    /\ UNCHANGED <<upload, response, columns, engineVars, sanitizeVars, ddlVars,
                   providerVars, parseVars, describeVars>>

\* df[col_name] is a Series when the label occurs once among the columns and
\* a DataFrame, which analyze_column cannot take, when it occurs again
IsSeries(table, j) ==
    SeenBefore(DfColumns(table), Len(DfColumns(table)), DfColumns(table)[j]) = 1

\* analyze_csv, lines 58-62: one iteration of the loop over df.columns, and
\* the end of the loop
AnalyzeNextColumn ==
    /\ pc = "analyzing"
    /\ IF Len(columns) = Len(DfColumns(df))
       THEN /\ pc' = "describing"
            /\ UNCHANGED <<columns, raised>>
       ELSE IF IsSeries(df, Len(columns) + 1)
       THEN /\ columns' = Append(columns,
                                 analyze_column(DfColumns(df)[Len(columns) + 1],
                                                DfColumn(df, Len(columns) + 1)))
            /\ UNCHANGED <<pc, raised>>
       ELSE /\ raised' = <<"AttributeError", 0, <<"'","D","a","t","a","F","r","a","m","e","'"," ","o","b","j","e","c","t"," ","h","a","s"," ","n","o"," ","a","t","t","r","i","b","u","t","e"," ","'","n","a","m","e","'">>>>
            /\ pc' = "raising"
            /\ UNCHANGED columns
    /\ UNCHANGED <<upload, response, df, parsing_info, engineVars, sanitizeVars, ddlVars,
                   providerVars, parseVars, describeVars>>

\* the replies the service gives to the one request for a table's columns
RouteReplies ==
    { <<"raised", <<>>>>,
      <<"list", <<>>>>,
      <<"list", << <<"str", <<"C","u","s","t","o","m","e","r"," ","r","e","f","e","r","e","n","c","e">>>> >> >> }

\* analyze_csv, line 65: generate_descriptions, with the rule-based strategy
\* or with one request for the columns, which are fewer than a batch holds
DescribeColumns(reply) ==
    /\ pc = "describing"
    /\ columns' = (IF ~client \/ ~groq_available \/ Len(columns) = 0
                   THEN _generate_fallback_descriptions(columns)
                   ELSE WithBatch(columns, 0, BatchSize(columns), reply))
    /\ pc' = "synthesizing"
    /\ UNCHANGED <<upload, raised, response, df, parsing_info, engineVars, sanitizeVars,
                   ddlVars, providerVars, parseVars, describeVars>>

\* variant: the DDL is synthesized from the analyses before they are described
SynthesizeDdlFirst ==
    /\ pc \in {"describing", "synthesizing"}
    /\ ddl' = generate_ddl(table_name, columns)
    /\ pc' = IF pc = "describing" THEN "describing" ELSE "building"
    /\ UNCHANGED <<upload, raised, response, df, parsing_info, columns, table_name,
                   engineVars, sanitizeVars, providerVars, parseVars, describeVars>>

\* analyze_csv, line 68: generate_ddl
SynthesizeDdl ==
    /\ pc = "synthesizing"
    /\ ddl' = generate_ddl(table_name, columns)
    /\ pc' = "building"
    /\ UNCHANGED <<upload, raised, response, df, parsing_info, columns, table_name,
                   engineVars, sanitizeVars, providerVars, parseVars, describeVars>>

\* analyze_csv, lines 70-95: the AnalysisResponse, as <<status, success,
\* ddl, columns, rows and columns of file_info>>
BuildResponse ==
    /\ pc = "building"
    /\ response' = <<200, <<"s","u","c","c","e","s","s">>, ddl, columns, parsing_info>>
    /\ pc' = "responded"
    /\ UNCHANGED <<upload, raised, df, parsing_info, columns, engineVars, sanitizeVars,
                   ddlVars, providerVars, parseVars, describeVars>>

\* analyze_csv, lines 97-101: the handlers of the outer try
HandleRaised ==
    /\ pc = "raising"
    /\ response' = (IF ExcClass(raised) = "HTTPException"
                    THEN <<ExcStatus(raised), ExcMessage(raised)>>
                    ELSE <<ExcStatus(handle_api_error(raised)),
                           ExcMessage(handle_api_error(raised))>>)
    /\ pc' = "responded"
    /\ UNCHANGED <<upload, raised, df, parsing_info, columns, engineVars, sanitizeVars,
                   ddlVars, providerVars, parseVars, describeVars>>

NextRoute ==
    \/ CheckUpload
    \/ ParseCsv
    \/ AnalyzeNextColumn
    \/ \E reply \in RouteReplies : DescribeColumns(reply)
    \/ SynthesizeDdl
    \/ BuildResponse
    \/ HandleRaised

SpecRoute == InitRoute /\ [][NextRoute]_vars

Responded == pc = "responded"

\* the upload is a CSV file by its name and the parser cannot turn it into a
\* table: no content, too much content, at most one column, or no data row
NoTable ==
    /\ ~BadFilename(filename)
    /\ \/ content_len = 0
       \/ content_len > max_file_size
       \/ n_columns <= 1
       \/ n_rows = 0

\* C12: an input the parser cannot turn into a table is answered with a client
\* error (status 400) that is not the generic "analysis failed" condition, and
\* never with a successful response.
C12_InputErrorIsClientError ==
    (Responded /\ NoTable) =>
        /\ response[1] = 400
        /\ response[2] # ERROR_MESSAGES("analysis_failed")

\* parse_csv returned a table to analyze_csv
TableReturned == df # <<>>

\* C28: whenever parse_csv returns instead of raising, the table returned has
\* at least 2 columns and at least 1 row, and the rows and columns reported
\* in parsing_info are the dimensions of that table, also after the cleaning
\* step dropped the rows whose cells are all null.
C28_ReturnedTableHasData ==
    TableReturned =>
        /\ Len(DfColumns(df)) >= 2
        /\ Len(DfRows(df)) >= 1
        /\ parsing_info = <<Len(DfRows(df)), Len(DfColumns(df))>>
        /\ \A r \in 1..Len(DfRows(df)) : Len(DfRows(df)[r]) = Len(DfColumns(df))

\* the labels _handle_duplicate_columns was given: those of the header, stripped
LabelsGiven == [i \in 1..Len(header) |-> Strip(header[i])]

\* the label at position i occurs at an earlier position too
OccursEarlier(labels, i) == \E j \in 1..(i - 1) : labels[j] = labels[i]

\* the text is the label followed by an underscore and a number
Suffixed(text, label) ==
    \E k \in 1..Len(header) : text = label \o <<"_">> \o NatToStr(k)

\* C29: _handle_duplicate_columns returns as many labels as it was given,
\* pairwise distinct; the first occurrence of a label is unchanged and a later
\* occurrence gets a numeric suffix, also when a suffixed label such as id_1
\* collides with a label that was given.
C29_DistinctLabels ==
    TableReturned =>
        /\ Len(DfColumns(df)) = Len(LabelsGiven)
        /\ \A i, j \in 1..Len(DfColumns(df)) :
               i # j => DfColumns(df)[i] # DfColumns(df)[j]
        /\ \A i \in 1..Len(LabelsGiven) :
               IF OccursEarlier(LabelsGiven, i)
               THEN Suffixed(DfColumns(df)[i], LabelsGiven[i])
               ELSE DfColumns(df)[i] = LabelsGiven[i]

\* the loop over df.columns is over: by its end or by an exception
LoopOver == TableReturned /\ pc # "analyzing"

\* the cells of column i of the table that are not null, in row order
NonNullOf(i) == SelectSeq(DfColumn(df, i), LAMBDA c : c # NULL)

\* C24: the engine returns one analysis per column of the table, in the
\* order of the columns; in each, null_count plus the number of non-null
\* cells is total_count, unique_count is between 0 and total_count -
\* null_count, and sample_values are the first min(5, non-null count)
\* non-null cells in source order.
C24_OneAnalysisPerColumn ==
    LoopOver =>
        /\ Len(columns) = Len(DfColumns(df))
        /\ \A i \in 1..Len(columns) :
               /\ columns[i].name = DfColumns(df)[i]
               /\ columns[i].total_count = Len(DfRows(df))
               /\ columns[i].null_count + Len(NonNullOf(i)) = columns[i].total_count
               /\ columns[i].unique_count \in 0..(columns[i].total_count - columns[i].null_count)
               /\ columns[i].sample_values =
                      SubSeq(NonNullOf(i), 1, MinOf2(5, Len(NonNullOf(i))))

\* every column of the table has its analysis
AllAnalyzed == TableReturned /\ Len(columns) = Len(DfColumns(df))

\* every analysis has its description
AllDescribed == \A i \in 1..Len(columns) : columns[i].description # <<>>

\* the request was answered with an AnalysisResponse
Succeeded == Responded /\ response[1] = 200

\* C30: the steps of the pipeline run in the order parse, analyze every
\* column, generate descriptions, synthesize the DDL: no column is analyzed
\* before the table is parsed, none is described before all are analyzed,
\* and the DDL is synthesized only when every description is filled; so in a
\* successful response every column definition of the DDL carries a COMMENT
\* clause, and the columns of the response are the analyses the DDL was
\* built from, one per column of the table and in its order.
C30_PipelineOrder ==
    /\ columns # <<>> => TableReturned
    /\ (\E i \in 1..Len(columns) : columns[i].description # <<>>) => AllAnalyzed
    /\ ddl # <<>> => (AllAnalyzed /\ AllDescribed)
    /\ Succeeded =>
           /\ response[3] = ddl
           /\ response[4] = columns
           /\ ddl = generate_ddl(table_name, response[4])
           /\ Len(Lines(ddl)) = Len(columns) + 2
           /\ \A i \in 1..Len(columns) :
                  /\ columns[i].name = DfColumns(df)[i]
                  /\ CommentStart(WithoutComma(i)) > 0

\* a table of three columns was answered with a DDL in which the first column
\* carries the remote description and the others the rule-based ones
C30_Witness ==
    /\ Succeeded
    /\ client
    /\ Len(columns) = 3
    /\ columns[1].description = <<"C","u","s","t","o","m","e","r"," ","r","e","f","e","r","e","n","c","e">>
    /\ columns[2].description = _generate_fallback_description(columns[2])
    /\ CommentText(1) = <<"C","u","s","t","o","m","e","r"," ","r","e","f","e","r","e","n","c","e">>
    /\ CommentStart(WithoutComma(3)) > 0

(***************************************************************************)
(* _parse_ai_response as a state machine: the service writes its body, the *)
(* body arrives whole or cut off, and the parser is applied to it.         *)
(***************************************************************************)
\* longest descriptions list the service sends
MaxSent == 2

SentTexts == { <<"a","b">>, <<"c">>, <<"d","}">> }
SentLists == UNION {[1..n -> SentTexts] : n \in 0..MaxSent}

InitParse ==
    /\ pc = "answering"
    /\ sent \in SentLists
    /\ response_content = JsonDumps(sent)
    /\ parsed = <<>>
    /\ columns = <<>>
    /\ EngineIdle /\ SanitizeIdle /\ DdlIdle /\ ProviderIdle /\ RouteIdle /\ DescribeIdle

\* the body arrives cut off after n characters (max_tokens was reached)
Truncate(n) ==
    /\ pc = "answering"
    /\ response_content' = Prefix(response_content, n)
    /\ pc' = "received"
    /\ UNCHANGED <<sent, parsed, columns, engineVars, sanitizeVars, ddlVars,
                   providerVars, routeVars, describeVars>>

\* the body arrives whole
Deliver ==
    /\ pc = "answering"
    /\ pc' = "received"
    /\ UNCHANGED <<sent, response_content, parsed, columns, engineVars, sanitizeVars,
                   ddlVars, providerVars, routeVars, describeVars>>

\* self._parse_ai_response(response.choices[0].message.content)
ParseResponse ==
    /\ pc = "received"
    /\ parsed' = _parse_ai_response(response_content)
    /\ pc' = "parsed"
    /\ UNCHANGED <<sent, response_content, columns, engineVars, sanitizeVars, ddlVars,
                   providerVars, routeVars, describeVars>>

NextParse ==
    \/ \E n \in 0..(Len(response_content) - 1) : Truncate(n)
    \/ Deliver
    \/ ParseResponse

SpecParse == InitParse /\ [][NextParse]_vars

Parsed == pc = "parsed"

\* the body was cut inside the descriptions array: after its opening bracket
\* and not after more than its closing bracket
CutInArray ==
    /\ Len(response_content) >= 17
    /\ Len(response_content) <= Len(JsonDumps(sent)) - 1

\* the position in the body of the quote that closes entry k
EntryEnd(k) == Len(JsonDumps(SubSeq(sent, 1, k))) - 2

\* the entries that stand complete before the cut
CompleteEntries ==
    SubSeq(sent, 1, Cardinality({k \in 1..Len(sent) : EntryEnd(k) <= Len(response_content)}))

\* C17: of a body cut inside the descriptions array the parser returns exactly
\* the complete entries before the cut, in order; it raises only when there
\* is none.
C17_SalvagesCompleteEntries ==
    (Parsed /\ CutInArray) =>
        IF CompleteEntries # <<>>
        THEN parsed = <<"return", CompleteEntries>>
        ELSE parsed[1] = "raise" \/ parsed = <<"return", <<>>>>

(***************************************************************************)
(* _generate_fallback_description as a state machine: a column that was    *)
(* analyzed is handed to the rule-based strategy.                          *)
(***************************************************************************)
\* the names of the columns described: one per keyword group, one that holds
\* words of two neighbouring groups for each pair of them, and names that
\* hold no keyword
DescribeNames == <<
    <<"c","u","s","t","o","m","e","r","_","i","d">>, <<"u","s","e","r","N","a","m","e">>, <<"c","r","e","a","t","e","d","_","a","t">>, <<"m","a","i","l">>, <<"t","e","l">>, <<"l","i","n","k">>,
    <<"a","d","d","r">>, <<"p","r","i","c","e">>, <<"q","t","y">>, <<"f","l","a","g">>, <<"n","o","t","e">>,
    <<"n","a","m","e","_","k","e","y">>, <<"t","i","t","l","e","_","d","a","t","e">>, <<"e","m","a","i","l","_","t","i","m","e">>, <<"p","h","o","n","e","_","m","a","i","l">>, <<"u","r","l","_","t","e","l">>,
    <<"l","o","c","a","t","i","o","n","_","l","i","n","k">>, <<"c","o","s","t","_","a","d","d","r">>, <<"c","o","u","n","t","_","t","o","t","a","l">>, <<"s","t","a","t","e","_","n","u","m","b","e","r">>,
    <<"c","o","m","m","e","n","t","_","s","t","a","t","u","s">>, <<"w","i","d","t","h">>, <<"a","g","e">>, <<"x">> >>

\* the cells of the columns described, one column per logical type
DescribeSeries == <<
    <<C_true>>, <<C_negative, C_int>>, <<C_int, C_int300>>, <<C_decimal>>,
    <<C_text, NULL>>, <<C_date>>, <<NULL>>, <<C_uuid>> >>

InitDescribe ==
    /\ pc = "analyzed"
    /\ \E n \in 1..Len(DescribeNames), s \in 1..Len(DescribeSeries) :
           col = analyze_column(DescribeNames[n], DescribeSeries[s])
    /\ desc = <<>>
    /\ columns = <<>>
    /\ EngineIdle /\ SanitizeIdle /\ DdlIdle /\ ProviderIdle /\ RouteIdle /\ ParseIdle

\* self._generate_fallback_description(col)
Describe ==
    /\ pc = "analyzed"
    /\ desc' = _generate_fallback_description(col)
    /\ pc' = "described"
    /\ UNCHANGED <<col, columns, engineVars, sanitizeVars, ddlVars, providerVars,
                   routeVars, parseVars>>

NextDescribe == Describe

SpecDescribe == InitDescribe /\ [][NextDescribe]_vars

DescribedCol == pc = "described"

\* the keyword groups in their order of priority, and how the description of
\* each begins
KeywordGroups == <<
    {<<"i","d">>, <<"k","e","y">>, <<"p","k">>},
    {<<"n","a","m","e">>, <<"t","i","t","l","e">>},
    {<<"d","a","t","e">>, <<"t","i","m","e">>, <<"c","r","e","a","t","e","d">>, <<"u","p","d","a","t","e","d">>, <<"m","o","d","i","f","i","e","d">>},
    {<<"e","m","a","i","l">>, <<"m","a","i","l">>},
    {<<"p","h","o","n","e">>, <<"t","e","l">>, <<"m","o","b","i","l","e">>},
    {<<"u","r","l">>, <<"l","i","n","k">>, <<"w","e","b","s","i","t","e">>},
    {<<"a","d","d","r","e","s","s">>, <<"a","d","d","r">>, <<"l","o","c","a","t","i","o","n">>},
    {<<"a","m","o","u","n","t">>, <<"p","r","i","c","e">>, <<"c","o","s","t">>, <<"v","a","l","u","e">>, <<"t","o","t","a","l">>, <<"s","u","m">>},
    {<<"c","o","u","n","t">>, <<"n","u","m","b","e","r">>, <<"q","t","y">>, <<"q","u","a","n","t","i","t","y">>},
    {<<"s","t","a","t","u","s">>, <<"s","t","a","t","e">>, <<"f","l","a","g">>},
    {<<"d","e","s","c","r","i","p","t","i","o","n">>, <<"d","e","s","c">>, <<"c","o","m","m","e","n","t">>, <<"n","o","t","e">>} >>

GroupLead == <<
    <<"U","n","i","q","u","e"," ","i","d","e","n","t","i","f","i","e","r"," ","f","i","e","l","d"," ","f","o","r"," ">>,
    <<"N","a","m","e"," ","o","r"," ","t","i","t","l","e"," ","f","i","e","l","d"," ","c","o","n","t","a","i","n","i","n","g"," ","d","e","s","c","r","i","p","t","i","v","e"," ","t","e","x","t">>,
    <<"T","i","m","e","s","t","a","m","p"," ","f","i","e","l","d"," ","f","o","r"," ">>,
    <<"E","m","a","i","l"," ","a","d","d","r","e","s","s"," ","f","i","e","l","d"," ","w","i","t","h"," ","v","a","l","i","d","a","t","i","o","n"," ","f","o","r","m","a","t"," ","r","e","q","u","i","r","e","m","e","n","t","s">>,
    <<"P","h","o","n","e"," ","n","u","m","b","e","r"," ","f","i","e","l","d"," ","s","u","p","p","o","r","t","i","n","g"," ","v","a","r","i","o","u","s"," ","i","n","t","e","r","n","a","t","i","o","n","a","l"," ","f","o","r","m","a","t","s">>,
    <<"U","R","L"," ","f","i","e","l","d"," ","f","o","r"," ","w","e","b"," ","a","d","d","r","e","s","s","e","s"," ","a","n","d"," ","e","x","t","e","r","n","a","l"," ","l","i","n","k","s">>,
    <<"A","d","d","r","e","s","s"," ","f","i","e","l","d"," ","s","t","o","r","i","n","g"," ">>,
    <<"M","o","n","e","t","a","r","y"," ","v","a","l","u","e"," ","f","i","e","l","d"," ","f","o","r"," ">>,
    <<"N","u","m","e","r","i","c"," ","c","o","u","n","t"," ","f","i","e","l","d"," ","f","o","r"," ">>,
    <<"S","t","a","t","u","s"," ","i","n","d","i","c","a","t","o","r"," ","f","i","e","l","d"," ","f","o","r"," ">>,
    <<"D","e","s","c","r","i","p","t","i","v","e"," ","t","e","x","t"," ","f","i","e","l","d"," ","c","o","n","t","a","i","n","i","n","g"," ">> >>

\* the groups a word of which occurs in the lower-cased name of the column
MatchingGroups ==
    {k \in 1..Len(KeywordGroups) :
        \E w \in KeywordGroups[k] : Contains(StrLower(col.name), w)}

FirstMatching == CHOOSE k \in MatchingGroups : \A j \in MatchingGroups : k <= j

\* the description is that of the first keyword group that matches
ByFirstGroup == MatchingGroups # {} => StartsWith(desc, GroupLead[FirstMatching])

\* the generic text
GenericText ==
    <<"D","a","t","a"," ","f","i","e","l","d"," ","o","f"," ","t","y","p","e"," ">> \o col.mysql_type \o <<" ","w","i","t","h"," ">>
    \o NatToStr(col.unique_count) \o <<" ","d","i","s","t","i","n","c","t"," ","v","a","l","u","e","s">>

\* the texts for the logical types that have one of their own
NumericText ==
    <<"N","u","m","e","r","i","c"," ","f","i","e","l","d"," ","(">> \o col.mysql_type \o <<")"," ","w","i","t","h"," ">>
    \o NatToStr(col.unique_count) \o <<" ","u","n","i","q","u","e"," ","v","a","l","u","e","s">>

\* C23 as stated: the description is determined by the first keyword group
\* that matches the lower-cased name, and a column whose name matches no
\* group gets the generic "field of type X with N distinct values" text
\* whatever its logical type.
C23_KeywordElseGeneric ==
    DescribedCol =>
        /\ ByFirstGroup
        /\ MatchingGroups = {} => StartsWith(desc, GenericText)

\* C23, amended: the description is determined by the first keyword group
\* that matches the lower-cased name; a column whose name matches no group
\* is described by its logical type: boolean as a flag, decimal, int,
\* bigint, tinyint and smallint as a numeric field, the string types as a
\* text field, and only every other type by the generic text.
C23_KeywordElseByType ==
    DescribedCol =>
        /\ ByFirstGroup
        /\ MatchingGroups = {} =>
               IF col.data_type = <<"b","o","o","l","e","a","n">>
               THEN StartsWith(desc, <<"B","o","o","l","e","a","n"," ","f","l","a","g"," ","i","n","d","i","c","a","t","i","n","g"," ">>)
               ELSE IF col.data_type \in {<<"d","e","c","i","m","a","l">>, <<"i","n","t">>, <<"b","i","g","i","n","t">>, <<"t","i","n","y","i","n","t">>, <<"s","m","a","l","l","i","n","t">>}
               THEN StartsWith(desc, NumericText)
               ELSE IF col.data_type \in StringTags
               THEN StartsWith(desc, <<"T","e","x","t"," ","f","i","e","l","d"," ","(">> \o col.mysql_type \o <<")"," ","c","o","n","t","a","i","n","i","n","g"," ">>)
               ELSE StartsWith(desc, GenericText)

\* a column whose name holds a name word and an identifier word was
\* described as an identifier, and one without keywords as a boolean flag
C23_Witness ==
    /\ DescribedCol
    /\ \/ /\ col.name = <<"n","a","m","e","_","k","e","y">>
          /\ StartsWith(desc, GroupLead[1])
       \/ /\ col.name = <<"a","g","e">>
          /\ col.data_type = <<"b","o","o","l","e","a","n">>
          /\ StartsWith(desc, <<"B","o","o","l","e","a","n"," ","f","l","a","g"," ","i","n","d","i","c","a","t","i","n","g"," ","a","g","e"," ","s","t","a","t","e">>)
=============================================================================
